---------------------------- MODULE Spec2Model ----------------------------
(***************************************************************************)
(* Model of mnelab's epoch artifact detection: the detector functions of   *)
(* mnelab/utils/artifact_detection.py and the state of                      *)
(* ArtifactDetectionDialog / ArtifactPreviewTable of                        *)
(* mnelab/dialogs/artifact_detection.py.                                    *)
(*                                                                         *)
(* Numbers.  Real numbers are fixed-point integers with six decimals: the  *)
(* real r is the integer r * One.  A spin box showing 100.0 holds 100*One, *)
(* a sample of 136e-6 V is 136.  Arithmetic is exact: floating-point       *)
(* rounding is not modelled.                                                *)
(*                                                                         *)
(* Data.  A dataset (mne.Epochs.get_data()) is a sequence of epochs, an    *)
(* epoch a sequence of channels, a channel a sequence of samples.  Epoch   *)
(* index i of the program is position i + 1 of the sequence.               *)
(***************************************************************************)
EXTENDS Integers, Sequences, FiniteSets, TLC

One == 1000 * 1000

\* value *= 1e-6 : the factor, as a fixed-point number
Micro == 1

FixMul(a, b) == (a * b) \div One

Abs(x) == IF x < 0 THEN -x ELSE x

RECURSIVE GCD(_, _)
GCD(a, b) == IF b = 0 THEN a ELSE GCD(b, a % b)

LCM(a, b) == (a \div GCD(a, b)) * b

RECURSIVE SeqSum(_)
SeqSum(s) == IF s = << >> THEN 0 ELSE Head(s) + SeqSum(Tail(s))

RECURSIVE SeqMax(_)
SeqMax(s) == IF Len(s) = 1 THEN s[1]
             ELSE LET m == SeqMax(Tail(s)) IN IF s[1] > m THEN s[1] ELSE m

RECURSIVE SeqMin(_)
SeqMin(s) == IF Len(s) = 1 THEN s[1]
             ELSE LET m == SeqMin(Tail(s)) IN IF s[1] < m THEN s[1] ELSE m

RECURSIVE SeqGCD(_)
SeqGCD(s) == IF s = << >> THEN 0 ELSE GCD(Abs(Head(s)), SeqGCD(Tail(s)))

RECURSIVE SeqLCM(_)
SeqLCM(s) == IF s = << >> THEN 1 ELSE LCM(Head(s), SeqLCM(Tail(s)))

\* len(data)
NEpochs(d) == Len(d)

\* range(n_epochs)
EpochIdx(d) == 0 .. (Len(d) - 1)

-----------------------------------------------------------------------------
(* Detector functions *)

\* epochs_data - epochs_data.mean(axis=-1, keepdims=True), times len(ch):
\* the deviation of sample t of channel ch from the channel's time mean is
\* ChanDev(ch)[t] / Len(ch)
ChanDev(ch) == [t \in 1 .. Len(ch) |-> Len(ch) * ch[t] - SeqSum(ch)]

\* Mutant: a deviation equal to the threshold counts
ChanAmplitudeBad_inclusive(ch, threshold) ==
    \E t \in 1 .. Len(ch) : Abs(ChanDev(ch)[t]) >= Len(ch) * threshold

\* np.any(np.abs(epochs_data - epoch_mean) > threshold) over one channel
ChanAmplitudeBad(ch, threshold) ==
    \E t \in 1 .. Len(ch) : Abs(ChanDev(ch)[t]) > Len(ch) * threshold

\* Mutant: the reduction over axes (0, 2), one entry per channel
find_bad_epochs_amplitude_by_channel(d, threshold) ==
    [c \in 0 .. ((IF d = << >> THEN 0 ELSE Len(d[1])) - 1) |->
        \E e \in 1 .. Len(d) : ChanAmplitudeBad(d[e][c + 1], threshold)]

find_bad_epochs_amplitude(d, threshold) ==
    [e \in EpochIdx(d) |->
        \E c \in 1 .. Len(d[e + 1]) : ChanAmplitudeBad(d[e + 1][c], threshold)]

\* np.ptp(..., axis=2) of one channel
ChanPtp(ch) == SeqMax(ch) - SeqMin(ch)

\* Mutant: the comparison with the threshold the other way round
find_bad_epochs_ptp_below(d, threshold) ==
    [e \in EpochIdx(d) |->
        \E c \in 1 .. Len(d[e + 1]) : ChanPtp(d[e + 1][c]) < threshold]

\* Mutant: np.all in place of np.any over the channels
find_bad_epochs_ptp_all(d, threshold) ==
    [e \in EpochIdx(d) |->
        \A c \in 1 .. Len(d[e + 1]) : ChanPtp(d[e + 1][c]) > threshold]

find_bad_epochs_ptp(d, threshold) ==
    [e \in EpochIdx(d) |->
        \E c \in 1 .. Len(d[e + 1]) : ChanPtp(d[e + 1][c]) > threshold]

\* A kurtosis value is a rational << numerator, denominator >> with a
\* positive denominator; nan is << 0, 0 >>.
NaN == << 0, 0 >>

IsNaN(q) == q[2] = 0

\* stats.kurtosis(..., fisher=True) of one channel: m4 / m2**2 - 3, which is
\* n * S4 / S2^2 - 3 for the sums S2, S4 of the 2nd and 4th powers of the
\* deviations (any common factor of the deviations cancels); nan when the
\* channel is constant (m2 = 0).
ChanKurtosis(ch) ==
    LET n   == Len(ch)
        dev == ChanDev(ch)
        g   == SeqGCD(dev)
    IN  IF g = 0 THEN NaN
        ELSE LET dh  == [t \in 1 .. n |-> dev[t] \div g]
                 S2  == SeqSum([t \in 1 .. n |-> dh[t] * dh[t]])
                 S4  == SeqSum([t \in 1 .. n |-> dh[t] * dh[t] * dh[t] * dh[t]])
                 num == n * S4 - 3 * S2 * S2
                 den == S2 * S2
                 r   == GCD(Abs(num), den)
             IN  << num \div r, den \div r >>

\* The kurtosis values kurt_values[:, c] of channel c, one per epoch
KurtColumn(d, c) == [e \in 1 .. Len(d) |-> ChanKurtosis(d[e][c])]

\* Mutant: the z-score compared without np.abs
KurtZBad_signed(col, e, threshold) ==
    IF \E i \in 1 .. Len(col) : IsNaN(col[i]) THEN FALSE
    ELSE LET N  == Len(col)
             L  == SeqLCM([i \in 1 .. N |-> col[i][2]])
             a  == [i \in 1 .. N |-> col[i][1] * (L \div col[i][2])]
             D  == [i \in 1 .. N |-> N * a[i] - SeqSum(a)]
             SS == SeqSum([i \in 1 .. N |-> D[i] * D[i]])
             tg == GCD(Abs(threshold), One)
             tn == threshold \div tg
             td == One \div tg
         IN  IF SS = 0 THEN threshold < 0
             ELSE IF threshold >= 0
                  THEN D[e] > 0 /\ N * D[e] * D[e] * td * td > tn * tn * SS
                  ELSE D[e] >= 0 \/ N * D[e] * D[e] * td * td < tn * tn * SS

\* np.abs((kurt_values - kurt_mean) / (kurt_std + 1e-10))[e, c] > threshold,
\* for a column col of kurtosis values and e in 1 .. Len(col).  With N
\* epochs and D[e] = N * k[e] - sum(k), the z-score of epoch e is
\* sqrt(N) * D[e] / sqrt(sum(D^2)).  A nan in the column makes kurt_mean and
\* every z-score of the column nan, and nan > threshold is False.  The
\* 1e-10 decides the quotient only when kurt_std is 0, where the z-score
\* is 0.
KurtZBad(col, e, threshold) ==
    IF \E i \in 1 .. Len(col) : IsNaN(col[i]) THEN FALSE
    ELSE LET N  == Len(col)
             L  == SeqLCM([i \in 1 .. N |-> col[i][2]])
             a  == [i \in 1 .. N |-> col[i][1] * (L \div col[i][2])]
             D  == [i \in 1 .. N |-> N * a[i] - SeqSum(a)]
             G  == SeqGCD(D)
         IN  IF threshold < 0 THEN TRUE
             ELSE IF G = 0 THEN FALSE
             ELSE LET Dh == [i \in 1 .. N |-> D[i] \div G]
                      SS == SeqSum([i \in 1 .. N |-> Dh[i] * Dh[i]])
                      tg == GCD(threshold, One)
                      tn == threshold \div tg
                      td == One \div tg
                  IN  N * Dh[e] * Dh[e] * td * td > tn * tn * SS

find_bad_epochs_kurtosis(d, threshold) ==
    [e \in EpochIdx(d) |->
        \E c \in 1 .. Len(d[e + 1]) :
            KurtZBad(KurtColumn(d, c), e + 1, threshold)]

\* The thresholds autoreject's get_rejection_threshold may return for "eeg"
\* (a library heuristic, not code of this repository); all channels of the
\* modelled datasets are of type eeg.
\* bad_epochs |= np.any(np.abs(ch_data) > threshold, axis=(1, 2))
AutorejectBad(d, eeg_threshold) ==
    [e \in EpochIdx(d) |->
        \E c \in 1 .. Len(d[e + 1]) :
            \E t \in 1 .. Len(d[e + 1][c]) : Abs(d[e + 1][c][t]) > eeg_threshold]

-----------------------------------------------------------------------------
(* Python dict helpers: a dict is a function on its set of keys *)

EmptyDict == [k \in {} |-> FALSE]

\* d[k] = v
Put(d, k, v) == [x \in (DOMAIN d) \cup {k} |-> IF x = k THEN v ELSE d[x]]

\* d.pop(k, None)
Pop(d, k) == [x \in (DOMAIN d) \ {k} |-> d[x]]

\* d.get(k, default)
Get(d, k, default) == IF k \in DOMAIN d THEN d[k] ELSE default

Range(s) == {s[i] : i \in DOMAIN s}

-----------------------------------------------------------------------------
(* utils/dependencies.py: the `have` table.  Names are sequences of       *)
(* characters.                                                            *)

required ==
    << << "m", "n", "e" >>,
       << "p", "y", "s", "i", "d", "e", "6" >>,
       << "m", "a", "t", "p", "l", "o", "t", "l", "i", "b" >>,
       << "n", "u", "m", "p", "y" >>,
       << "s", "c", "i", "p", "y" >>,
       << "e", "d", "f", "i", "o" >>,
       << "p", "y", "x", "d", "f" >>,
       << "p", "y", "b", "v" >>,
       << "p", "y", "b", "v", "r", "f" >>,
       << "b", "l", "a", "c", "k" >>,
       << "i", "s", "o", "r", "t" >>,
       << "o", "n", "n", "x" >> >>

optional ==
    << << "a", "u", "t", "o", "r", "e", "j", "e", "c", "t" >>,
       << "m", "n", "e", "-", "q", "t", "-", "b", "r", "o", "w", "s", "e", "r" >>,
       << "p", "i", "c", "a", "r", "d" >>,
       << "s", "k", "l", "e", "a", "r", "n" >> >>

\* _distribution_names
distribution_names ==
    (<< "p", "i", "c", "a", "r", "d" >> :> << "p", "y", "t", "h", "o", "n", "-", "p", "i", "c", "a", "r", "d" >>)
    @@ (<< "s", "k", "l", "e", "a", "r", "n" >> :> << "s", "c", "i", "k", "i", "t", "-", "l", "e", "a", "r", "n" >>)

\* _import_names
import_names ==
    (<< "p", "y", "s", "i", "d", "e", "6" >> :> << "P", "y", "S", "i", "d", "e", "6" >>)

\* str.replace(old, new) for single characters
Replace(text, old, new) ==
    [i \in 1 .. Len(text) |-> IF text[i] = old THEN new ELSE text[i]]

\* distribution_name = _distribution_names.get(dep, dep)
DistributionName(dep) == Get(distribution_names, dep, dep)

\* Mutant: the import name without the _import_names lookup
ImportName_unmapped(dep) == Replace(dep, "-", "_")

\* import_name = _import_names.get(dep, dep).replace("-", "_")
ImportName(dep) == Replace(Get(import_names, dep, dep), "-", "_")

\* metadata.version raising PackageNotFoundError, import_module raising
\* ImportError, a module without __version__, and Python's False
PackageNotFound == "PackageNotFoundError"
ImportFails == "ImportError"
NoVersion == "no __version__"
PyFalse == "False"

\* What metadata.version(name) gives in an environment: a distribution the
\* environment does not know is not found
MetadataVersion(env, name) == Get(env.metadata, name, PackageNotFound)

\* What import_module(name) gives: ImportFails, NoVersion or the module's
\* __version__
ImportModule(env, name) == Get(env.modules, name, ImportFails)

\* The body of the loop for one dependency: the value stored in have
HaveValue(env, dep) ==
    IF MetadataVersion(env, DistributionName(dep)) # PackageNotFound
    THEN MetadataVersion(env, DistributionName(dep))
    ELSE IF ImportModule(env, ImportName(dep)) = ImportFails THEN PyFalse
    ELSE IF ImportModule(env, ImportName(dep)) = NoVersion THEN "unknown"
    ELSE ImportModule(env, ImportName(dep))

\* for dep in required + optional: have[distribution_name] = version
RECURSIVE HaveLoop(_, _, _)
HaveLoop(env, deps, table) ==
    IF deps = << >> THEN table
    ELSE HaveLoop(env, Tail(deps),
                  Put(table, DistributionName(Head(deps)), HaveValue(env, Head(deps))))

-----------------------------------------------------------------------------
(* ArtifactDetectionDialog *)

VARIABLES
    have_autoreject,    \* have["autoreject"] is truthy
    eeg_threshold,      \* what get_rejection_threshold returns for this data
    data,               \* self.data
    checked,            \* method -> checkbox.isChecked()
    spin,               \* method -> the values of its spin boxes, in order
    detection_results,  \* self.detection_results
    detection_done,     \* self.detection_done
    pending_methods,    \* self.pending_methods
    timer_active,       \* self.detection_timer.isActive()
    info_label,         \* self.info_label's text
    preview_enabled,    \* self.preview_button.isEnabled()
    ok_enabled,         \* the OK button's isEnabled()
    phase,              \* "open", "accepted" or "rejected": the dialog's exec()
    pv_open,            \* an ArtifactPreviewTable is executing
    pv_results,         \* the preview's self.detection_results
    pv_check,           \* source row -> the row's Reject check state
    pv_order,           \* the proxy model's rows: the source row of each, in order
    viz_open,           \* an EpochVisualization is executing over the preview
    viz_bad,            \* fig.mne.bad_epochs of the figure it shows
    error,              \* the exception a slot last raised, "" if none
    det_threshold,      \* the threshold a detector is called with directly
    det_result,         \* what that call returned
    environment,        \* the installed distributions and importable modules
    have,               \* utils.dependencies.have, empty until the module runs
    info_widget,        \* the InfoWidget: its copy button, flags and timers
    sidebar,            \* the SidebarTableWidget: rows, selection, drag and drop
    last                \* history: the operation that led to this state

\* What no dialog operation changes
fixed == << have_autoreject, eeg_threshold, data, det_threshold, det_result,
           environment, have, info_widget, sidebar >>

\* The preview's view state: the sort order and the epoch visualization
pv_view == << pv_order, viz_open, viz_bad >>

vars == << fixed, checked, spin,
           detection_results, detection_done, pending_methods, timer_active,
           info_label, preview_enabled, ok_enabled, phase, pv_open,
           pv_results, pv_check, pv_view, error, last >>

EV  == "Extreme values"
PTP == "Peak-to-peak"
KU  == "Kurtosis"
AR  == "AutoReject"

RejectKey == "reject"

\* self.detection_methods, in the dict's order
\* Mutant: a registry that offers AutoReject unconditionally
detection_methods_with_autoreject == << EV, PTP, KU, AR >>

detection_methods ==
    IF have_autoreject THEN << EV, PTP, KU, AR >> ELSE << EV, PTP, KU >>

Methods == Range(detection_methods)

\* detection_methods[m]["parameters"]: (param_name, default, unit) each
Parameters(m) ==
    CASE m = EV  -> << << "threshold", 100 * One, "uV" >> >>
      [] m = PTP -> << << "threshold", 150 * One, "uV" >> >>
      [] m = KU  -> << << "threshold", 5 * One, "SD" >> >>
      [] m = AR  -> << >>

\* detection_methods[m]["function"].__name__
FunctionName(m) ==
    CASE m = EV  -> "find_bad_epochs_amplitude"
      [] m = PTP -> "find_bad_epochs_ptp"
      [] m = KU  -> "find_bad_epochs_kurtosis"
      [] m = AR  -> "find_bad_epochs_autoreject"

\* The keyword argument name of a list of (name, value) pairs
Param(params, name) ==
    (CHOOSE i \in 1 .. Len(params) : params[i][1] = name)
    
ParamValue(params, name) == params[Param(params, name)][2]

\* detection_func(self.data, **params)
Detect(m, d, params) ==
    CASE m = EV  -> find_bad_epochs_amplitude(d, ParamValue(params, "threshold"))
      [] m = PTP -> find_bad_epochs_ptp(d, ParamValue(params, "threshold"))
      [] m = KU  -> find_bad_epochs_kurtosis(d, ParamValue(params, "threshold"))
      [] m = AR  -> AutorejectBad(d, eeg_threshold)

\* The parameters get_selected_methods builds for a method from its spin
\* boxes sp: microvolts are converted to volts
ConvertParams(m, sp) ==
    [i \in 1 .. Len(Parameters(m)) |->
        << Parameters(m)[i][1],
           IF Parameters(m)[i][3] = "uV" THEN FixMul(sp[i], Micro) ELSE sp[i] >>]

\* get_selected_methods().keys(), in order, for check states chk
SelectedSeq(chk) == SelectSeq(detection_methods, LAMBDA m : chk[m])

\* get_selected_methods()[m]
SelectedParams(m) == ConvertParams(m, spin[m])

Selected == Range(SelectedSeq(checked))

\* get_bad_epochs over a results table: the indices in the dict's order,
\* which is 0, 1, ... (run_detection inserts them so and copies keep it)
RECURSIVE BadEpochsFrom(_, _)
BadEpochsFrom(res, i) ==
    IF i \notin DOMAIN res THEN << >>
    ELSE (IF Get(res[i], RejectKey, FALSE) THEN << i >> ELSE << >>)
         \o BadEpochsFrom(res, i + 1)

get_bad_epochs == BadEpochsFrom(detection_results, 0)

NoLabel == [text |-> "", rejected |-> 0, total |-> 0]

DetectingLabel == [text |-> "Detecting artifacts...", rejected |-> 0, total |-> 0]

\* The label update_info_label sets for results res and done flag done
InfoLabelFor(res, done) ==
    IF ~done THEN NoLabel
    ELSE [text     |-> "When pressing OK, r/t epochs will be dropped.",
          rejected |-> Len(BadEpochsFrom(res, 0)),
          total    |-> Cardinality(DOMAIN res)]

\* The history fields: the pending set a run consumed (pend), the method
\* keys stored before the operation (had), the epochs that had a manually
\* added rejection before a run (over), the detectors a run called, in
\* order (calls), the epochs whose Reject box was checked when a preview
\* was accepted (checks)
NoHistory == [pend |-> {}, had |-> {}, over |-> {}, calls |-> << >>, checks |-> {}]

Did(op) == [op |-> op] @@ NoHistory

-----------------------------------------------------------------------------
(* The inputs of the model *)

\* No epochs
DataNone == << >>

\* One epoch of one channel and four samples, in microvolts
DataOne == << << << 0, 0, 0, 136 >> >> >>

\* Two epochs of one channel and four samples
DataPair == << << << 0, 0, 0, 136 >> >>, << << 0, 0, 200, 200 >> >> >>

\* Five epochs: at the default thresholds the extreme-values method flags
\* epochs 1 and 3, the peak-to-peak method epochs 3 and 4
DataScenario ==
    << << << 0, 0, 0, 0 >> >>,
       << << 0, 0, 0, 136 >> >>,
       << << 0, 0, 0, 0 >> >>,
       << << 0, 0, 0, 400 >> >>,
       << << 0, 0, 200, 200 >> >> >>

\* The datasets a session is run on: with AutoReject in the registry the
\* sessions explored are those on the one-epoch dataset
Datasets == IF have_autoreject THEN {DataOne} ELSE {DataNone, DataPair}

\* The values a user gives a method's spin box: its default and, for the
\* extreme-values method, another
SpinChoices(m) ==
    CASE m = EV  -> IF have_autoreject THEN {100 * One} ELSE {100 * One, 50 * One}
      [] m = PTP -> {150 * One}
      [] m = KU  -> {5 * One}
      [] m = AR  -> {}

\* The "eeg" thresholds get_rejection_threshold is taken to return, in
\* microvolts
AutorejectThresholds == {100}

-----------------------------------------------------------------------------
(* Construction *)

\* ArtifactDetectionDialog.__init__(parent, data)
DialogInit(d) ==
    /\ data = d
    /\ checked = [m \in Methods |-> FALSE]
    /\ spin = [m \in Methods |->
                  [i \in 1 .. Len(Parameters(m)) |-> Parameters(m)[i][2]]]
    /\ detection_results = EmptyDict
    /\ detection_done = FALSE
    /\ pending_methods = {}
    /\ timer_active = FALSE
    /\ info_label = NoLabel
    /\ preview_enabled = FALSE
    /\ ok_enabled = FALSE
    /\ phase = "open"
    /\ pv_open = FALSE
    /\ pv_results = EmptyDict
    /\ pv_check = EmptyDict
    /\ pv_order = << >>
    /\ viz_open = FALSE
    /\ viz_bad = {}
    /\ error = ""
    /\ last = Did("init")

\* have["autoreject"] and the library's threshold are fixed before the
\* dialog is built
Capabilities ==
    /\ have_autoreject \in BOOLEAN
    /\ eeg_threshold \in (IF have_autoreject THEN AutorejectThresholds ELSE {0})

\* No detector has been called directly
\* The dependencies module not yet executed
NoEnvironment == [metadata |-> EmptyDict, modules |-> EmptyDict]

Unloaded ==
    /\ environment = NoEnvironment
    /\ have = EmptyDict

NoResult == [function |-> "", raised |-> "", read |-> FALSE, bad |-> << >>]

\* The main window's widgets not built
NoWidgets ==
    /\ info_widget = << >>
    /\ sidebar = << >>

Init ==
    /\ Capabilities
    /\ \E d \in Datasets : DialogInit(d)
    /\ det_threshold = 0
    /\ det_result = NoResult
    /\ NoWidgets
    /\ Unloaded

-----------------------------------------------------------------------------
(* Operations *)

\* The set of method keys stored in a results table
StoredMethods(res) ==
    UNION {DOMAIN res[i] : i \in DOMAIN res} \ {RejectKey}

\* Mutant: a change that is noted but does not start the timer
schedule_detection_without_timer(changed_method, chk) ==
    IF SelectedSeq(chk) = << >>
    THEN /\ detection_results' = EmptyDict
         /\ detection_done' = FALSE
         /\ info_label' = NoLabel
         /\ preview_enabled' = FALSE
         /\ ok_enabled' = FALSE
         /\ timer_active' = FALSE
         /\ pending_methods' = {}
    ELSE /\ info_label' = DetectingLabel
         /\ pending_methods' = pending_methods \cup {changed_method}
         /\ timer_active' = timer_active
         /\ UNCHANGED << detection_results, detection_done, preview_enabled,
                         ok_enabled >>

\* Mutant: a reset that leaves the two buttons enabled
schedule_detection_keeps_buttons(changed_method, chk) ==
    IF SelectedSeq(chk) = << >>
    THEN /\ detection_results' = EmptyDict
         /\ detection_done' = FALSE
         /\ info_label' = NoLabel
         /\ UNCHANGED << preview_enabled, ok_enabled >>
         /\ timer_active' = FALSE
         /\ pending_methods' = {}
    ELSE /\ info_label' = DetectingLabel
         /\ pending_methods' = pending_methods \cup {changed_method}
         /\ timer_active' = TRUE
         /\ UNCHANGED << detection_results, detection_done, preview_enabled,
                         ok_enabled >>

\* Mutant: a reset that forgets the pending methods
schedule_detection_keeps_pending(changed_method, chk) ==
    IF SelectedSeq(chk) = << >>
    THEN /\ detection_results' = EmptyDict
         /\ detection_done' = FALSE
         /\ info_label' = NoLabel
         /\ preview_enabled' = FALSE
         /\ ok_enabled' = FALSE
         /\ timer_active' = FALSE
         /\ pending_methods' = pending_methods
    ELSE /\ info_label' = DetectingLabel
         /\ pending_methods' = pending_methods \cup {changed_method}
         /\ timer_active' = TRUE
         /\ UNCHANGED << detection_results, detection_done, preview_enabled,
                         ok_enabled >>

\* schedule_detection(changed_method), called with the check states chk
\* that the toggle has just set
schedule_detection(changed_method, chk) ==
    IF SelectedSeq(chk) = << >>
    THEN /\ detection_results' = EmptyDict
         /\ detection_done' = FALSE
         /\ info_label' = NoLabel
         /\ preview_enabled' = FALSE
         /\ ok_enabled' = FALSE
         /\ timer_active' = FALSE
         /\ pending_methods' = {}
    ELSE /\ info_label' = DetectingLabel
         /\ pending_methods' = pending_methods \cup {changed_method}
         /\ timer_active' = TRUE
         /\ UNCHANGED << detection_results, detection_done, preview_enabled,
                         ok_enabled >>

\* The dialog takes user input: it is executing and no modal preview is
\* open over it
DialogActive == phase = "open" /\ ~pv_open

\* checkbox.toggled: the user clicks method m's check box
ToggleMethod(m) ==
    /\ DialogActive
    /\ checked' = [checked EXCEPT ![m] = ~@]
    /\ schedule_detection(m, checked')
    /\ last' = [Did("toggle") EXCEPT !.had = StoredMethods(detection_results)]
    /\ UNCHANGED << fixed, spin, phase,
                    pv_open, pv_results, pv_check, pv_view, error >>

\* spin_box.valueChanged: the user gives parameter i of method m the new
\* value v; the parameter container is enabled only while m is checked
ChangeParameter(m, i, v) ==
    /\ DialogActive
    /\ checked[m]
    /\ spin[m][i] # v
    /\ spin' = [spin EXCEPT ![m][i] = v]
    /\ schedule_detection(m, checked)
    /\ last' = Did("parameter")
    /\ UNCHANGED << fixed, checked, phase,
                    pv_open, pv_results, pv_check, pv_view, error >>

\* any(results.get(method, False) for method in method_names)
AnyFlagged(results, method_names) ==
    \E m \in method_names : Get(results, m, FALSE)

\* The epochs whose reject is True though no stored method outcome is: a
\* rejection only a manual override can have set
ManuallyAdded(res) ==
    {i \in DOMAIN res :
        /\ Get(res[i], RejectKey, FALSE)
        /\ ~AnyFlagged(res[i], (DOMAIN res[i]) \ {RejectKey})}

\* Mutant: a run that keeps a rejection already set
RejectValue_keeping(results, method_names) ==
    Get(results, RejectKey, FALSE) \/ AnyFlagged(results, method_names)

\* The value run_detection gives an epoch's "reject": the OR over the
\* selected methods, whatever "reject" held
RejectValue(results, method_names) == AnyFlagged(results, method_names)

\* Mutant: a run that calls the detector of every selected method
methods_to_run_all(sel, pend) == sel

\* methods_to_run = {m: selected[m] for m in pending_methods if m in selected}
methods_to_run(sel, pend) == {m \in pend : m \in sel}

\* Mutant: a run that purges nothing
methods_to_remove_none(sel, pend) == {}

\* methods_to_remove = {m for m in pending_methods if m not in selected}
methods_to_remove(sel, pend) == {m \in pend : m \notin sel}

\* The table run_detection leaves, for the selected methods sel and the
\* pending methods pend
RunResults(res, sel, pend) ==
    LET base      == IF DOMAIN res = {}
                     THEN [i \in EpochIdx(data) |-> EmptyDict] ELSE res
        to_run    == methods_to_run(sel, pend)
        to_remove == methods_to_remove(sel, pend)
        bad       == [m \in to_run |-> Detect(m, data, SelectedParams(m))]
        cleaned   == [i \in EpochIdx(data) |->
                         [k \in (DOMAIN base[i]) \ to_remove |-> base[i][k]]]
        detected  == [i \in EpochIdx(data) |->
                         [k \in (DOMAIN cleaned[i]) \cup to_run |->
                             IF k \in to_run THEN bad[k][i] ELSE cleaned[i][k]]]
    IN  [i \in EpochIdx(data) |->
            Put(detected[i], RejectKey, RejectValue(detected[i], sel))]

\* run_detection, on the timeout of the single-shot detection_timer
run_detection ==
    /\ phase = "open"
    /\ timer_active
    /\ timer_active' = FALSE
    /\ detection_results' = RunResults(detection_results, Selected, pending_methods)
    /\ pending_methods' = {}
    /\ detection_done' = TRUE
    /\ info_label' = InfoLabelFor(detection_results', TRUE)
    /\ preview_enabled' = TRUE
    /\ ok_enabled' = TRUE
    /\ last' = [op    |-> "run_detection",
                pend  |-> pending_methods,
                had   |-> StoredMethods(detection_results),
                over  |-> ManuallyAdded(detection_results),
                calls |-> SelectSeq(detection_methods,
                             LAMBDA m : m \in methods_to_run(Selected, pending_methods)),
                checks |-> {}]
    /\ UNCHANGED << fixed, checked, spin, phase,
                    pv_open, pv_results, pv_check, pv_view, error >>

\* update_info_label() of the dialog
update_info_label(res) == info_label' = InfoLabelFor(res, detection_done)

\* table_view.sortByColumn(0, AscendingOrder): the proxy rows of a table
\* just populated, source row i showing epoch i
SortedByEpoch(res) == [k \in 1 .. Cardinality(DOMAIN res) |-> k - 1]

\* preview_button.clicked -> show_preview_table: ArtifactPreviewTable's
\* __init__ reads detection_results[0], a KeyError when the table is
\* empty; otherwise it copies every epoch's dict and populate_table sets
\* each row's Reject check state from the copy and sorts by epoch
show_preview_table ==
    /\ DialogActive
    /\ preview_enabled
    /\ IF 0 \notin DOMAIN detection_results
       THEN /\ error' = "KeyError"
            /\ UNCHANGED << pv_open, pv_results, pv_check, pv_order >>
       ELSE /\ pv_open' = TRUE
            /\ pv_results' = detection_results
            /\ pv_check' = [i \in DOMAIN detection_results |->
                               Get(detection_results[i], RejectKey, FALSE)]
            /\ pv_order' = SortedByEpoch(detection_results)
            /\ UNCHANGED error
    /\ last' = Did("show_preview_table")
    /\ UNCHANGED << fixed, checked, spin, viz_open, viz_bad,
                    detection_results, detection_done, pending_methods,
                    timer_active, info_label, preview_enabled, ok_enabled,
                    phase >>

\* The preview takes user input: it is executing and no modal epoch
\* visualization is open over it
PreviewActive == phase = "open" /\ pv_open /\ ~viz_open

\* The user clicks the Reject check box of the row of epoch i
PreviewToggle(i) ==
    /\ PreviewActive
    /\ i \in DOMAIN pv_check
    /\ pv_check' = [pv_check EXCEPT ![i] = ~@]
    /\ last' = Did("preview_toggle")
    /\ UNCHANGED << fixed, checked, spin,
                    detection_results, detection_done, pending_methods,
                    timer_active, info_label, preview_enabled, ok_enabled,
                    phase, pv_open, pv_results, pv_view, error >>

\* Mutant: a sync that sets the checked rows and never clears a rejection
sync_results_checked_only(res, check) ==
    [i \in DOMAIN res |->
        IF i \in DOMAIN check /\ check[i] THEN Put(res[i], RejectKey, TRUE)
        ELSE res[i]]

\* proxy_model.mapToSource(proxy_model.index(proxy_row, 0)).row()
mapToSource(proxy_row) == pv_order[proxy_row + 1]

\* Mutant: the check state written to the epoch numbered as the proxy row
SyncRow_to_proxy_row(res, check, proxy_row) ==
    LET real_row_idx == mapToSource(proxy_row)
        is_checked   == check[real_row_idx]
    IN  [res EXCEPT ![proxy_row] = Put(@, RejectKey, is_checked)]

\* One pass of the loop of sync_results_from_table, for proxy row proxy_row
SyncRow(res, check, proxy_row) ==
    LET real_row_idx == mapToSource(proxy_row)
        is_checked   == check[real_row_idx]
    IN  [res EXCEPT ![real_row_idx] = Put(@, RejectKey, is_checked)]

\* The loop from proxy row proxy_row on, proxy_model.rowCount() being
\* Len(pv_order)
RECURSIVE SyncRows(_, _, _)
SyncRows(res, check, proxy_row) ==
    IF proxy_row >= Len(pv_order) THEN res
    ELSE SyncRows(SyncRow(res, check, proxy_row), check, proxy_row + 1)

\* sync_results_from_table: every row writes its check state to its epoch
sync_results_from_table(res, check) == SyncRows(res, check, 0)

\* ArtifactPreviewTable.accept, and show_preview_table after exec()
\* returned Accepted
PreviewAccept ==
    /\ PreviewActive
    /\ detection_results' = sync_results_from_table(pv_results, pv_check)
    /\ update_info_label(detection_results')
    /\ pv_open' = FALSE
    /\ pv_results' = EmptyDict
    /\ pv_check' = EmptyDict
    /\ pv_order' = << >>
    /\ last' = [Did("preview_accept") EXCEPT
                   !.checks = {i \in DOMAIN pv_check : pv_check[i]}]
    /\ UNCHANGED << fixed, checked, spin,
                    detection_done, pending_methods, timer_active,
                    preview_enabled, ok_enabled, phase, viz_open, viz_bad,
                    error >>

\* ArtifactPreviewTable.reject: the preview is cancelled
PreviewCancel ==
    /\ PreviewActive
    /\ pv_open' = FALSE
    /\ pv_results' = EmptyDict
    /\ pv_check' = EmptyDict
    /\ pv_order' = << >>
    /\ last' = Did("preview_cancel")
    /\ UNCHANGED << fixed, checked, spin,
                    detection_results, detection_done, pending_methods,
                    timer_active, info_label, preview_enabled, ok_enabled,
                    phase, viz_open, viz_bad, error >>

\* The orders the proxy model (NumberSortProxyModel of mnelab/dialogs/utils,
\* a sorting proxy) can show n rows in: a column sort of either direction is
\* a permutation of the source rows
Orders(n) ==
    {o \in [1 .. n -> 0 .. (n - 1)] :
        \A i, j \in 1 .. n : i # j => o[i] # o[j]}

\* The user clicks a column header of the preview table (setSortingEnabled):
\* the proxy model shows the rows in another order
PreviewSort(o) ==
    /\ PreviewActive
    /\ o # pv_order
    /\ pv_order' = o
    /\ last' = Did("sort")
    /\ UNCHANGED << fixed, checked, spin,
                    detection_results, detection_done, pending_methods,
                    timer_active, info_label, preview_enabled, ok_enabled,
                    phase, pv_open, pv_results, pv_check, viz_open, viz_bad,
                    error >>

\* view_epochs_button.clicked -> show_epoch_visualization: the table is
\* synced, the figure starts with the epochs whose reject is True as its
\* bad epochs, and the EpochVisualization executes
show_epoch_visualization ==
    /\ PreviewActive
    /\ pv_results' = sync_results_from_table(pv_results, pv_check)
    /\ viz_bad' = {idx \in DOMAIN pv_results' :
                      Get(pv_results'[idx], RejectKey, FALSE)}
    /\ viz_open' = TRUE
    /\ last' = Did("show_epoch_visualization")
    /\ UNCHANGED << fixed, checked, spin,
                    detection_results, detection_done, pending_methods,
                    timer_active, info_label, preview_enabled, ok_enabled,
                    phase, pv_open, pv_check, pv_order, error >>

\* The user clicks epoch idx in the figure: the plotting library marks or
\* unmarks it in fig.mne.bad_epochs
VizToggle(idx) ==
    /\ phase = "open"
    /\ viz_open
    /\ viz_bad' = IF idx \in viz_bad THEN viz_bad \ {idx} ELSE viz_bad \cup {idx}
    /\ last' = Did("viz_toggle")
    /\ UNCHANGED << fixed, checked, spin,
                    detection_results, detection_done, pending_methods,
                    timer_active, info_label, preview_enabled, ok_enabled,
                    phase, pv_open, pv_results, pv_check, pv_order, viz_open,
                    error >>

\* Mutant: the rejections set from the figure without the reset before
update_from_visualization_without_reset(res, flagged_epochs) ==
    [idx \in DOMAIN res |->
        IF idx \in flagged_epochs THEN Put(res[idx], RejectKey, TRUE)
        ELSE res[idx]]

\* _update_from_visualization: every reject reset to False, then set to
\* True for the flagged epochs the table has
update_from_visualization(res, flagged_epochs) ==
    [idx \in DOMAIN res |-> Put(res[idx], RejectKey, idx \in flagged_epochs)]

\* refresh_table: source row row_idx takes the reject of epoch row_idx
refresh_table(res) ==
    [row_idx \in 0 .. (Cardinality(DOMAIN res) - 1) |->
        Get(res[row_idx], RejectKey, FALSE)]

\* The visualization window is closed: closeEvent reads the figure's bad
\* epochs into flagged_epochs, finished calls _update_from_visualization.
\* (The Escape key is filtered out by eventFilter and closes nothing.)
VizClose ==
    /\ phase = "open"
    /\ viz_open
    /\ pv_results' = update_from_visualization(pv_results, viz_bad)
    /\ pv_check' = refresh_table(pv_results')
    /\ viz_open' = FALSE
    /\ viz_bad' = {}
    /\ last' = Did("viz_close")
    /\ UNCHANGED << fixed, checked, spin,
                    detection_results, detection_done, pending_methods,
                    timer_active, info_label, preview_enabled, ok_enabled,
                    phase, pv_open, pv_order, error >>

\* button_box.accepted -> accept: the user presses OK
DialogAccept ==
    /\ DialogActive
    /\ ok_enabled
    /\ phase' = "accepted"
    /\ last' = Did("accept")
    /\ UNCHANGED << fixed, checked, spin,
                    detection_results, detection_done, pending_methods,
                    timer_active, info_label, preview_enabled, ok_enabled,
                    pv_open, pv_results, pv_check, pv_view, error >>

\* The scenario session: five epochs, and a user who works the check boxes
\* of the extreme-values and peak-to-peak methods and the preview
InitScenario ==
    /\ have_autoreject = FALSE
    /\ eeg_threshold = 0
    /\ DialogInit(DataScenario)
    /\ det_threshold = 0
    /\ det_result = NoResult
    /\ NoWidgets
    /\ Unloaded

NextScenario ==
    \/ \E m \in {EV, PTP} : ToggleMethod(m)
    \/ run_detection
    \/ show_preview_table
    \/ \E i \in EpochIdx(data) : PreviewToggle(i)
    \/ PreviewAccept
    \/ PreviewCancel
    \/ DialogAccept

SpecScenario == InitScenario /\ [][NextScenario]_vars

Next ==
    \/ \E m \in Methods : ToggleMethod(m)
    \/ \E m \in Methods : \E i \in 1 .. Len(Parameters(m)) :
          \E v \in SpinChoices(m) : ChangeParameter(m, i, v)
    \/ run_detection
    \/ show_preview_table
    \/ \E i \in EpochIdx(data) : PreviewToggle(i)
    \/ PreviewAccept
    \/ PreviewCancel
    \/ DialogAccept

Spec == Init /\ [][Next]_vars

\* The session on two epochs of a user who works the check boxes of the
\* extreme-values and peak-to-peak methods and the preview, and who also
\* sorts the preview table and opens the epoch visualization from it
InitPreview ==
    /\ have_autoreject = FALSE
    /\ eeg_threshold = 0
    /\ DialogInit(DataPair)
    /\ det_threshold = 0
    /\ det_result = NoResult
    /\ NoWidgets
    /\ Unloaded

NextPreview ==
    \/ NextScenario
    \/ \E o \in Orders(NEpochs(data)) : PreviewSort(o)
    \/ show_epoch_visualization
    \/ \E idx \in EpochIdx(data) : VizToggle(idx)
    \/ VizClose

SpecPreview == InitPreview /\ [][NextPreview]_vars

-----------------------------------------------------------------------------
(* get_history_code.  Text is a sequence of one-character strings; the   *)
(* script is a sequence of statements, each a tuple headed by its kind.   *)

UpperCase == << "A", "B", "C", "D", "E", "F", "G", "H", "I", "J", "K", "L", "M",
                "N", "O", "P", "Q", "R", "S", "T", "U", "V", "W", "X", "Y", "Z" >>

LowerCase == << "a", "b", "c", "d", "e", "f", "g", "h", "i", "j", "k", "l", "m",
                "n", "o", "p", "q", "r", "s", "t", "u", "v", "w", "x", "y", "z" >>

\* str.lower() of a text
Lower(text) ==
    [i \in 1 .. Len(text) |->
        IF \E j \in 1 .. Len(UpperCase) : UpperCase[j] = text[i]
        THEN LowerCase[CHOOSE j \in 1 .. Len(UpperCase) : UpperCase[j] = text[i]]
        ELSE text[i]]

\* The characters of a method's name
MethodText(m) ==
    CASE m = EV  -> << "E", "x", "t", "r", "e", "m", "e", " ",
                       "v", "a", "l", "u", "e", "s" >>
      [] m = PTP -> << "P", "e", "a", "k", "-", "t", "o", "-",
                       "p", "e", "a", "k" >>
      [] m = KU  -> << "K", "u", "r", "t", "o", "s", "i", "s" >>
      [] m = AR  -> << "A", "u", "t", "o", "R", "e", "j", "e", "c", "t" >>

\* var_name = f"bad_epochs_{method.lower()}"
VarName(m) ==
    << "b", "a", "d", "_", "e", "p", "o", "c", "h", "s", "_" >> \o Lower(MethodText(m))

\* The elements of a set of integers as a list.  list(set) of small
\* non-negative integers iterates in ascending order.
RECURSIVE SetToList(_)
SetToList(S) ==
    IF S = {} THEN << >>
    ELSE LET x == CHOOSE y \in S : \A z \in S : y <= z
         IN  << x >> \o SetToList(S \ {x})

\* auto_rejected: the epochs some selected method's stored outcome flags
auto_rejected ==
    {idx \in DOMAIN detection_results :
        AnyFlagged(detection_results[idx], Selected)}

\* final_rejects = set(self.get_bad_epochs())
final_rejects == Range(get_bad_epochs)

\* Mutant: the added list holding every final rejection
manual_added_all == SetToList(final_rejects)

manual_added == SetToList(final_rejects \ auto_rejected)

\* Mutant: the removed list built from the wrong difference
manual_removed_swapped == SetToList(final_rejects \ auto_rejected)

manual_removed == SetToList(auto_rejected \ final_rejects)

\* The statements for the selected methods: one call each
CallLines ==
    [i \in 1 .. Len(SelectedSeq(checked)) |->
        LET m == SelectedSeq(checked)[i]
        IN  << "call", VarName(m), FunctionName(m), SelectedParams(m) >>]

\* bad_epochs_vars
bad_epochs_vars ==
    [i \in 1 .. Len(SelectedSeq(checked)) |-> VarName(SelectedSeq(checked)[i])]

\* The statements from "# manual modifications" on
ManualLines ==
    IF manual_added # << >> \/ manual_removed # << >>
    THEN << << "comment", "# manual modifications" >>, << "copy" >> >>
         \o (IF manual_added # << >> THEN << << "extend", manual_added >> >>
             ELSE << >>)
         \o (IF manual_removed # << >> THEN << << "filter", manual_removed >> >>
             ELSE << >>)
         \o << << "drop", "bad_epochs_final" >> >>
    ELSE << << "drop", "bad_epochs_auto" >> >>

get_history_code ==
    << << "comment", "# artifact detection" >> >>
    \o CallLines
    \o << << "mask", bad_epochs_vars >>, << "auto" >> >>
    \o ManualLines

-----------------------------------------------------------------------------
(* Running a generated script on a dataset *)

\* The detector function of a given name, called on d with keyword
\* arguments params
CallDetector(func_name, d, params) ==
    CASE func_name = "find_bad_epochs_amplitude" ->
            find_bad_epochs_amplitude(d, ParamValue(params, "threshold"))
      [] func_name = "find_bad_epochs_ptp" ->
            find_bad_epochs_ptp(d, ParamValue(params, "threshold"))
      [] func_name = "find_bad_epochs_kurtosis" ->
            find_bad_epochs_kurtosis(d, ParamValue(params, "threshold"))
      [] func_name = "find_bad_epochs_autoreject" ->
            AutorejectBad(d, eeg_threshold)

\* np.where(mask)[0].tolist(), from index i on
RECURSIVE WhereTrue(_, _)
WhereTrue(mask, i) ==
    IF i \notin DOMAIN mask THEN << >>
    ELSE (IF mask[i] THEN << i >> ELSE << >>) \o WhereTrue(mask, i + 1)

\* The environment after statement st
ExecStatement(env, st, d) ==
    CASE st[1] = "comment" -> env
      [] st[1] = "call" ->
            [env EXCEPT !.masks = Put(env.masks, st[2],
                                      CallDetector(st[3], d, st[4]))]
      [] st[1] = "mask" ->
            [env EXCEPT !.mask =
                [e \in EpochIdx(d) |->
                    \E i \in 1 .. Len(st[2]) : env.masks[st[2][i]][e]]]
      [] st[1] = "auto" -> [env EXCEPT !.auto = WhereTrue(env.mask, 0)]
      [] st[1] = "copy" -> [env EXCEPT !.final = env.auto]
      [] st[1] = "extend" -> [env EXCEPT !.final = env.final \o st[2]]
      [] st[1] = "filter" ->
            [env EXCEPT !.final =
                SelectSeq(env.final, LAMBDA idx : idx \notin Range(st[2]))]
      [] st[1] = "drop" ->
            [env EXCEPT !.dropped =
                IF st[2] = "bad_epochs_final" THEN env.final ELSE env.auto]

RECURSIVE ExecScript(_, _, _)
ExecScript(env, script, d) ==
    IF script = << >> THEN env
    ELSE ExecScript(ExecStatement(env, Head(script), d), Tail(script), d)

\* The epochs the script drops from d
EvalScript(script, d) ==
    Range(ExecScript([masks |-> EmptyDict, mask |-> EmptyDict, auto |-> << >>,
                      final |-> << >>, dropped |-> << >>], script, d).dropped)

-----------------------------------------------------------------------------
(* The detectors called directly, on every dataset of a few small shapes *)

MaxSample == 2

MaxThreshold == 2

\* (n_epochs, n_channels, n_times)
DetectorShapes == {<< 0, 1, 2 >>, << 1, 1, 2 >>, << 1, 2, 2 >>, << 2, 1, 3 >>}

\* All datasets of a shape with samples 0 .. MaxSample
DataOfShape(sh) ==
    [1 .. sh[1] -> [1 .. sh[2] -> [1 .. sh[3] -> 0 .. MaxSample]]]

\* One-channel epochs of four samples whose kurtosis is -2/3, -2, -1 and nan
KurtosisEpochs ==
    {<< << 0, 0, 0, 1 >> >>, << << 0, 0, 1, 1 >> >>,
     << << 0, 1, 1, 2 >> >>, << << 0, 0, 0, 0 >> >>}

\* Datasets of two and of three such epochs, where the z-scores differ
KurtosisData == [1 .. 2 -> KurtosisEpochs] \cup [1 .. 3 -> KurtosisEpochs]

DetectorData == UNION {DataOfShape(sh) : sh \in DetectorShapes} \cup KurtosisData

DetectorThresholds == -1 .. MaxThreshold

\* A call either is made without autoreject installed, with any threshold,
\* or with autoreject installed, whose threshold for "eeg" is then any
\* non-negative one
InitDetect ==
    /\ have_autoreject \in BOOLEAN
    /\ \E d \in DetectorData : DialogInit(d)
    /\ det_threshold \in (IF have_autoreject THEN {1} ELSE DetectorThresholds)
    /\ eeg_threshold \in (IF have_autoreject THEN 0 .. MaxThreshold ELSE {0})
    /\ det_result = NoResult
    /\ NoWidgets
    /\ Unloaded

\* Mutant: a reduction that raises on an array without elements
Returned_unless_empty(name, bad) ==
    IF DOMAIN bad = {}
    THEN [function |-> name, raised |-> "ValueError", read |-> TRUE, bad |-> << >>]
    ELSE [function |-> name, raised |-> "", read |-> TRUE, bad |-> bad]

\* What a call that returned leaves
Returned(name, bad) ==
    [function |-> name, raised |-> "", read |-> TRUE, bad |-> bad]

\* What a call that raised leaves; read tells whether the dataset was read
Raised(name, exception, read) ==
    [function |-> name, raised |-> exception, read |-> read, bad |-> << >>]

DetectFrame ==
    UNCHANGED << have_autoreject, eeg_threshold, data, det_threshold,
                 environment, have, info_widget, sidebar, checked, spin, detection_results, detection_done,
                 pending_methods, timer_active, info_label,
                 preview_enabled, ok_enabled, phase, pv_open, pv_results,
                 pv_check, pv_view, error, last >>

\* find_bad_epochs_amplitude(data, threshold=det_threshold)
ApplyAmplitude ==
    /\ det_result = NoResult
    /\ det_result' = Returned("find_bad_epochs_amplitude",
                              find_bad_epochs_amplitude(data, det_threshold))
    /\ DetectFrame

\* find_bad_epochs_ptp(data, threshold=det_threshold)
ApplyPtp ==
    /\ det_result = NoResult
    /\ det_result' = Returned("find_bad_epochs_ptp",
                              find_bad_epochs_ptp(data, det_threshold))
    /\ DetectFrame

\* find_bad_epochs_kurtosis(data, threshold=det_threshold)
ApplyKurtosis ==
    /\ det_result = NoResult
    /\ det_result' = Returned("find_bad_epochs_kurtosis",
                              find_bad_epochs_kurtosis(data, det_threshold * One))
    /\ DetectFrame

\* find_bad_epochs_autoreject(data): the ImportError comes first; what the
\* library does with a dataset of no epochs is not code of this repository,
\* so that call either raises in the library or returns
ApplyAutoreject ==
    /\ det_result = NoResult
    /\ IF ~have_autoreject
       THEN det_result' = Raised("find_bad_epochs_autoreject", "ImportError", FALSE)
       ELSE \/ det_result' = Returned("find_bad_epochs_autoreject",
                                      AutorejectBad(data, eeg_threshold))
            \/ /\ NEpochs(data) = 0
               /\ det_result' = Raised("find_bad_epochs_autoreject",
                                       "LibraryError", TRUE)
    /\ DetectFrame

NextDetect ==
    \/ ApplyAmplitude
    \/ ApplyPtp
    \/ ApplyKurtosis
    \/ ApplyAutoreject

SpecDetect == InitDetect /\ [][NextDetect]_vars

\* The dialog on a one-epoch dataset, with and without autoreject installed,
\* next to a direct call of find_bad_epochs_autoreject
InitAvailability ==
    /\ Capabilities
    /\ DialogInit(DataOne)
    /\ det_threshold = 0
    /\ det_result = NoResult
    /\ NoWidgets
    /\ Unloaded

NextAvailability ==
    \/ Next
    \/ ApplyAutoreject

SpecAvailability == InitAvailability /\ [][NextAvailability]_vars

\* The dialog on a one-epoch dataset with a timer that, once started and
\* not restarted or stopped, expires: detection_timer is a single-shot
\* QTimer of 500 ms whose timeout runs run_detection
InitDebounce ==
    /\ have_autoreject = FALSE
    /\ eeg_threshold = 0
    /\ DialogInit(DataOne)
    /\ det_threshold = 0
    /\ det_result = NoResult
    /\ NoWidgets
    /\ Unloaded

\* The timeout of detection_timer, whose slot is run_detection: the steps
\* that stop the running timer of the open dialog and set detection_done
TimerExpires ==
    /\ phase = "open"
    /\ timer_active
    /\ timer_active' = FALSE
    /\ detection_done' = TRUE

SpecDebounce == InitDebounce /\ [][Next]_vars /\ WF_timer_active(TimerExpires)

\* The dependencies whose distribution or module name differs from the
\* name in the list: (dependency, distribution, module)
KnownPackages ==
    << << << "p", "y", "s", "i", "d", "e", "6" >>, << "p", "y", "s", "i", "d", "e", "6" >>, << "P", "y", "S", "i", "d", "e", "6" >> >>,
       << << "p", "i", "c", "a", "r", "d" >>, << "p", "y", "t", "h", "o", "n", "-", "p", "i", "c", "a", "r", "d" >>, << "p", "i", "c", "a", "r", "d" >> >>,
       << << "s", "k", "l", "e", "a", "r", "n" >>, << "s", "c", "i", "k", "i", "t", "-", "l", "e", "a", "r", "n" >>, << "s", "k", "l", "e", "a", "r", "n" >> >>,
       << << "m", "n", "e", "-", "q", "t", "-", "b", "r", "o", "w", "s", "e", "r" >>,
          << "m", "n", "e", "-", "q", "t", "-", "b", "r", "o", "w", "s", "e", "r" >>,
          << "m", "n", "e", "_", "q", "t", "_", "b", "r", "o", "w", "s", "e", "r" >> >> >>

\* The other dependencies go by one name
OtherDeps ==
    SelectSeq(required \o optional,
              LAMBDA d : \A i \in 1 .. Len(KnownPackages) : KnownPackages[i][1] # d)

Packages ==
    KnownPackages \o [i \in 1 .. Len(OtherDeps) |->
                         << OtherDeps[i], OtherDeps[i], OtherDeps[i] >>]

\* A package's metadata version or PackageNotFound, and its module's
\* __version__, NoVersion or ImportFails
PackageStates == {PackageNotFound, "1.0"} \X {ImportFails, NoVersion, "2.0"}

\* The packages of KnownPackages vary one by one, the others together
GroupOf(i) == IF i <= Len(KnownPackages) THEN i ELSE Len(KnownPackages) + 1

EnvOf(c) ==
    [metadata |->
        [n \in {Packages[i][2] : i \in 1 .. Len(Packages)} |->
            c[GroupOf(CHOOSE i \in 1 .. Len(Packages) : Packages[i][2] = n)][1]],
     modules |->
        [n \in {Packages[i][3] : i \in 1 .. Len(Packages)} |->
            c[GroupOf(CHOOSE i \in 1 .. Len(Packages) : Packages[i][3] = n)][2]]]

Environments ==
    {EnvOf(c) : c \in [1 .. (Len(KnownPackages) + 1) -> PackageStates]}

InitHave ==
    /\ have_autoreject = FALSE
    /\ eeg_threshold = 0
    /\ DialogInit(DataNone)
    /\ det_threshold = 0
    /\ det_result = NoResult
    /\ NoWidgets
    /\ environment \in Environments
    /\ have = EmptyDict

\* The execution of utils/dependencies.py on import
LoadDependencies ==
    /\ have = EmptyDict
    /\ have' = HaveLoop(environment, required \o optional, EmptyDict)
    /\ UNCHANGED << have_autoreject, eeg_threshold, data, det_threshold,
                    det_result, environment, info_widget, sidebar, checked, spin,
                    detection_results, detection_done, pending_methods,
                    timer_active, info_label, preview_enabled, ok_enabled,
                    phase, pv_open, pv_results, pv_check, pv_view, error,
                    last >>

NextHave == LoadDependencies

SpecHave == InitHave /\ [][NextHave]_vars

-----------------------------------------------------------------------------
(* widgets/infowidget.py: InfoWidget and the copy button of its "File name" *)
(* row.  A timer is its remaining time in milliseconds, Stopped when it is *)
(* not running; time advances in steps of TickMs while no timeout is due.  *)

\* The icons of _copy_btn: QIcon(), _copy_icon and _check_icon
NoIcon == "QIcon()"
CopyIcon == "copy-path"
CheckIcon == "copy-done"

\* _hide_timer.setInterval(50), _restore_timer.setInterval(1500)
HideInterval == 50
RestoreInterval == 1500

\* The step of the clock
TickMs == 50

Stopped == -1

IsActive(timer) == timer # Stopped

\* The file names shown
FileNames == {"a.fif", "b.edf"}

\* Where the pointer is: over the value label, over the button (the two
\* objects with the event filter), or over neither
PointerPlaces == {"label", "button", "elsewhere"}

Watched == {"label", "button"}

\* InfoWidget.__init__ and set_values with a "File name" row of value path
InfoWidgetInit(path) ==
    [path          |-> path,
     icon          |-> NoIcon,
     hovered       |-> FALSE,
     hide_timer    |-> Stopped,
     restore_timer |-> Stopped,
     pointer       |-> "elsewhere",
     clipboard     |-> "",
     event         |-> "init"]

\* _on_copy(path)
on_copy(w) ==
    [w EXCEPT !.clipboard = w.path,
              !.icon = CheckIcon,
              !.restore_timer = RestoreInterval,
              !.event = "click"]

\* _restore_copy_icon, the restore timer's timeout
restore_copy_icon(w) ==
    [w EXCEPT !.restore_timer = Stopped,
              !.icon = IF w.hovered THEN CopyIcon ELSE NoIcon,
              !.event = "restore"]

\* Mutant: an Enter that shows the copy icon whatever the restore timer
EnterEvent_always_copy(w) ==
    [w EXCEPT !.hovered = TRUE,
              !.hide_timer = Stopped,
              !.icon = CopyIcon,
              !.event = "enter"]

\* eventFilter, event.type() == QEvent.Enter
EnterEvent(w) ==
    [w EXCEPT !.hovered = TRUE,
              !.hide_timer = Stopped,
              !.icon = IF ~IsActive(w.restore_timer) THEN CopyIcon ELSE @,
              !.event = "enter"]

\* eventFilter, event.type() == QEvent.Leave
LeaveEvent(w) ==
    [w EXCEPT !.hovered = FALSE,
              !.hide_timer = HideInterval,
              !.event = "leave"]

\* _hide_copy_btn, the hide timer's timeout
hide_copy_btn(w) ==
    [w EXCEPT !.hide_timer = Stopped,
              !.icon = IF ~IsActive(w.restore_timer) THEN NoIcon ELSE @,
              !.event = "hide"]

\* What no InfoWidget step changes
InfoWidgetFrame ==
    UNCHANGED << have_autoreject, eeg_threshold, data, det_threshold, det_result,
                 environment, have, sidebar, checked, spin, detection_results,
                 detection_done, pending_methods, timer_active, info_label,
                 preview_enabled, ok_enabled, phase, pv_open, pv_results,
                 pv_check, pv_view, error, last >>

\* The pointer moves to another place: the toolkit sends Leave to the
\* watched object it was over, then Enter to the watched object it is over
PointerMoves(to) ==
    /\ info_widget.pointer # to
    /\ LET left    == IF info_widget.pointer \in Watched
                      THEN LeaveEvent(info_widget) ELSE info_widget
           entered == IF to \in Watched THEN EnterEvent(left) ELSE left
       IN  info_widget' = [entered EXCEPT !.pointer = to]
    /\ InfoWidgetFrame

\* btn.clicked: by the mouse over the button, or by the keyboard
CopyClicked ==
    /\ info_widget' = on_copy(info_widget)
    /\ InfoWidgetFrame

\* What a running timer has left after TickMs more
After(timer) ==
    IF ~IsActive(timer) THEN timer
    ELSE IF timer > TickMs THEN timer - TickMs ELSE 0

\* Time passes: a timer is running and no timeout is due
Tick ==
    /\ IsActive(info_widget.hide_timer) \/ IsActive(info_widget.restore_timer)
    /\ info_widget.hide_timer # 0
    /\ info_widget.restore_timer # 0
    /\ info_widget' = [info_widget EXCEPT !.hide_timer = After(@),
                                          !.restore_timer = After(@),
                                          !.event = "tick"]
    /\ InfoWidgetFrame

\* _hide_timer.timeout
HideTimerFires ==
    /\ info_widget.hide_timer = 0
    /\ info_widget' = hide_copy_btn(info_widget)
    /\ InfoWidgetFrame

\* _restore_timer.timeout
RestoreTimerFires ==
    /\ info_widget.restore_timer = 0
    /\ info_widget' = restore_copy_icon(info_widget)
    /\ InfoWidgetFrame

InitInfoWidget ==
    /\ have_autoreject = FALSE
    /\ eeg_threshold = 0
    /\ DialogInit(DataNone)
    /\ det_threshold = 0
    /\ det_result = NoResult
    /\ Unloaded
    /\ \E path \in FileNames : info_widget = InfoWidgetInit(path)
    /\ sidebar = << >>

NextInfoWidget ==
    \/ \E to \in PointerPlaces : PointerMoves(to)
    \/ CopyClicked
    \/ Tick
    \/ HideTimerFires
    \/ RestoreTimerFires

SpecInfoWidget == InitInfoWidget /\ [][NextInfoWidget]_vars

-----------------------------------------------------------------------------
(* SidebarTableWidget: the rows of the opened datasets, moved by drag and
   drop.  A position is the row under it, -1 below the last row, as
   indexAt(pos).row() gives it. *)

\* The largest number of rows
MaxRows == 4

\* mimeData().hasUrls(), event.source() == self, or another source
DragKinds == {"urls", "internal", "other"}

\* SidebarTableWidget.__init__ on a table of n rows: drop_row = -1
SidebarInit(n) ==
    [rowCount |-> n,
     selected |-> << >>,
     drop_row |-> -1,
     drag     |-> "none",
     inside   |-> FALSE,
     pos      |-> -1,
     emitted  |-> << >>,
     accepted |-> FALSE,
     event    |-> "init"]

\* mousePressEvent: over an item the press goes to the table, which in
\* SingleSelection mode selects the row, or deselects it when it was
\* selected and Ctrl is held; elsewhere the event is ignored
mousePressEvent(w, pos, ctrl) ==
    IF pos # -1
    THEN [w EXCEPT !.selected = IF ctrl /\ @ = << pos >> THEN << >>
                                 ELSE << pos >>,
                   !.pos = pos, !.emitted = << >>, !.accepted = TRUE,
                   !.event = "press"]
    ELSE [w EXCEPT !.pos = pos, !.emitted = << >>, !.accepted = FALSE,
                   !.event = "press"]

\* dragEnterEvent
dragEnterEvent(w) ==
    [w EXCEPT !.inside = TRUE, !.emitted = << >>,
              !.accepted = w.drag \in {"urls", "internal"},
              !.event = "dragEnter"]

\* dragMoveEvent
dragMoveEvent(w, pos) ==
    IF w.drag = "urls"
    THEN [w EXCEPT !.pos = pos, !.emitted = << >>, !.accepted = TRUE,
                   !.event = "dragMove"]
    ELSE IF w.drag = "internal"
    THEN LET drop_row == IF pos = -1 THEN w.rowCount ELSE pos
         IN  [w EXCEPT !.drop_row = drop_row,
                       !.pos = pos, !.emitted = << >>, !.accepted = TRUE,
                       !.event = "dragMove"]
    ELSE [w EXCEPT !.pos = pos, !.emitted = << >>, !.accepted = FALSE,
                   !.event = "dragMove"]

\* dragLeaveEvent
dragLeaveEvent(w) ==
    [w EXCEPT !.drop_row = -1, !.inside = FALSE, !.emitted = << >>,
              !.accepted = FALSE, !.event = "dragLeave"]

\* Mutant: a target that is not decreased below the selection
drop_target_without_decrease(row, selected_rows) == row

\* dropEvent, the target row: the row of the drop, less the number of selected
\* rows when it is below the last of them
drop_target(row, selected_rows) ==
    IF /\ selected_rows # << >>
       /\ row > selected_rows[Len(selected_rows)]
    THEN row - Len(selected_rows)
    ELSE row

\* dropEvent: a drop of URLs goes to the parent, a drop of this table's own
\* rows emits rowsMoved, any other is ignored.  The drag is over then.
dropEvent(w, pos) ==
    IF w.drag = "urls"
    THEN [w EXCEPT !.emitted = << >>, !.pos = pos, !.accepted = TRUE,
                   !.drag = "none", !.inside = FALSE, !.event = "drop"]
    ELSE IF w.drag = "internal"
    THEN LET row           == IF pos = -1 THEN w.rowCount ELSE pos
             selected_rows == w.selected
             drop_row      == drop_target(row, selected_rows)
         IN  IF selected_rows = << >>
             THEN \* selected_rows[0] raises IndexError after drop_row = -1
                  [w EXCEPT !.drop_row = -1, !.emitted = << >>,
                            !.pos = pos, !.accepted = FALSE,
                            !.drag = "none", !.inside = FALSE,
                            !.event = "IndexError"]
             ELSE [w EXCEPT !.drop_row = -1,
                            !.emitted = << << selected_rows[1], drop_row >> >>,
                            !.pos = pos, !.accepted = TRUE,
                            !.drag = "none", !.inside = FALSE,
                            !.event = "drop"]
    ELSE [w EXCEPT !.emitted = << >>, !.pos = pos, !.accepted = FALSE,
                   !.drag = "none", !.inside = FALSE, !.event = "drop"]

\* What no sidebar step changes
SidebarFrame ==
    UNCHANGED << have_autoreject, eeg_threshold, data, det_threshold, det_result,
                 environment, have, info_widget, checked, spin,
                 detection_results, detection_done, pending_methods,
                 timer_active, info_label, preview_enabled, ok_enabled, phase,
                 pv_open, pv_results, pv_check, pv_view, error, last >>

\* A mouse press while nothing is dragged
MousePress(pos, ctrl) ==
    /\ sidebar.drag = "none"
    /\ sidebar' = mousePressEvent(sidebar, pos, ctrl)
    /\ SidebarFrame

\* A drag of kind k comes in: the table starts one of its own rows only from
\* a selected row (the toolkit drags the selected indexes), and a drag
\* that left the table comes back
DragEnter(k) ==
    /\ ~sidebar.inside
    /\ \/ sidebar.drag = k
       \/ sidebar.drag = "none" /\ (k = "internal" => sidebar.selected # << >>)
    /\ sidebar' = dragEnterEvent([sidebar EXCEPT !.drag = k])
    /\ SidebarFrame

\* The drag moves over the table
DragMove(pos) ==
    /\ sidebar.inside
    /\ sidebar' = dragMoveEvent(sidebar, pos)
    /\ SidebarFrame

\* The drag leaves the table
DragLeave ==
    /\ sidebar.inside
    /\ sidebar' = dragLeaveEvent(sidebar)
    /\ SidebarFrame

\* The drag ends outside the table: no event reaches it
DragEnd ==
    /\ sidebar.drag # "none"
    /\ ~sidebar.inside
    /\ sidebar' = [sidebar EXCEPT !.drag = "none", !.emitted = << >>,
                                  !.accepted = FALSE, !.event = "dragEnd"]
    /\ SidebarFrame

\* The dragged thing is dropped on the table
Drop(pos) ==
    /\ sidebar.inside
    /\ sidebar' = dropEvent(sidebar, pos)
    /\ SidebarFrame

InitSidebar ==
    /\ have_autoreject = FALSE
    /\ eeg_threshold = 0
    /\ DialogInit(DataNone)
    /\ det_threshold = 0
    /\ det_result = NoResult
    /\ Unloaded
    /\ info_widget = << >>
    /\ \E n \in 0..MaxRows : sidebar = SidebarInit(n)

NextSidebar ==
    \/ \E pos \in -1..(sidebar.rowCount - 1), ctrl \in BOOLEAN :
           MousePress(pos, ctrl)
    \/ \E k \in DragKinds : DragEnter(k)
    \/ \E pos \in -1..(sidebar.rowCount - 1) : DragMove(pos)
    \/ DragLeave
    \/ DragEnd
    \/ \E pos \in -1..(sidebar.rowCount - 1) : Drop(pos)

SpecSidebar == InitSidebar /\ [][NextSidebar]_vars

-----------------------------------------------------------------------------
(* Properties *)

\* The epochs a table's stored outcome of method m flags
FlaggedBy(res, m) == {i \in DOMAIN res : Get(res[i], m, FALSE)}

\* The epochs a table rejects
Rejected(res) == {i \in DOMAIN res : Get(res[i], RejectKey, FALSE)}

\* The statements of a given kind in a script
Statements(script, kind) ==
    {script[k] : k \in {j \in 1 .. Len(script) : script[j][1] = kind}}

\* C1: in the state a run_detection leaves, every epoch has a "reject"
\* value, and it is True exactly when some currently selected method has a
\* stored True outcome for the epoch; a rejection set by hand before the run
\* does not survive it.
C1_RejectIsOrOfSelected ==
    last.op = "run_detection" =>
        /\ DOMAIN detection_results = EpochIdx(data)
        /\ \A i \in EpochIdx(data) :
              /\ RejectKey \in DOMAIN detection_results[i]
              /\ detection_results[i][RejectKey] <=>
                    \E m \in Selected :
                        /\ m \in DOMAIN detection_results[i]
                        /\ detection_results[i][m]

\* C1 witness: a run has overwritten a manually added rejection, and
\* rejects another epoch that a selected method flags
C1_Witness ==
    /\ last.op = "run_detection"
    /\ \E i \in last.over : ~detection_results[i][RejectKey]
    /\ \E j \in EpochIdx(data) : detection_results[j][RejectKey]

\* The outcome the detector of method m gives for the current parameters
CurrentOutcome(m) == Detect(m, data, SelectedParams(m))

\* C2: whenever detection is done and nothing is pending (no pending
\* method, timer inactive), the table has an entry for every epoch, each
\* entry's keys other than "reject" are exactly the selected methods, and
\* each value is the method's detector outcome for the current parameters.
C2_TableReflectsSelection ==
    (detection_done /\ pending_methods = {} /\ ~timer_active) =>
        /\ DOMAIN detection_results = EpochIdx(data)
        /\ \A i \in EpochIdx(data) :
              /\ (DOMAIN detection_results[i]) \ {RejectKey} = Selected
              /\ \A m \in Selected : detection_results[i][m] = CurrentOutcome(m)[i]

\* C3: whenever the dialog can be accepted (OK enabled, no preview over
\* it), running the script of get_history_code on the same dataset drops
\* exactly the epochs get_bad_epochs returns.
C3_ScriptReproducesBadEpochs ==
    (DialogActive /\ ok_enabled) =>
        EvalScript(get_history_code, data) = Range(get_bad_epochs)

\* C4: the script has the "manual modifications" block exactly when the
\* final reject set differs from the automatic set; in the block the extend
\* statement is there exactly when final minus automatic is non-empty and
\* lists just those indices, the filter statement exactly when automatic
\* minus final is non-empty and lists just those indices, and the one drop
\* statement targets bad_epochs_final; without the block it targets
\* bad_epochs_auto.
C4_ManualBlock ==
    LET script  == get_history_code
        auto    == {i \in DOMAIN detection_results :
                       \E m \in Selected : Get(detection_results[i], m, FALSE)}
        final   == Rejected(detection_results)
        block   == << "comment", "# manual modifications" >> \in
                       Statements(script, "comment")
        extends == Statements(script, "extend")
        filters == Statements(script, "filter")
        drops   == Statements(script, "drop")
    IN  /\ block <=> (final # auto)
        /\ Cardinality(drops) = 1
        /\ script[Len(script)][1] = "drop"
        /\ \A st \in drops :
              st[2] = (IF block THEN "bad_epochs_final" ELSE "bad_epochs_auto")
        /\ (extends # {}) <=> (final \ auto # {})
        /\ \A st \in extends :
              /\ block
              /\ Range(st[2]) = final \ auto
              /\ Len(st[2]) = Cardinality(final \ auto)
        /\ (filters # {}) <=> (auto \ final # {})
        /\ \A st \in filters :
              /\ block
              /\ Range(st[2]) = auto \ final
              /\ Len(st[2]) = Cardinality(auto \ final)
        /\ Cardinality(extends) <= 1
        /\ Cardinality(filters) <= 1

\* C4 witness: an accepted dialog whose final set has both a manually added
\* and a manually removed epoch
C4_Witness ==
    /\ phase = "accepted"
    /\ Statements(get_history_code, "extend") # {}
    /\ Statements(get_history_code, "filter") # {}

\* C5: in the five-epoch scenario, a run with the amplitude and the
\* peak-to-peak methods selected stores amplitude outcomes flagging {1,3}
\* and peak-to-peak outcomes flagging {3,4} and rejects {1,3,4}; after the
\* acceptance of a preview of that table in which epoch 3 is unchecked and
\* epoch 2 checked, get_bad_epochs returns [1,2,4] and the script extends by
\* [2] and filters over [3].
C5_Scenario ==
    LET both == Selected = {EV, PTP} /\ StoredMethods(detection_results) = {EV, PTP}
    IN  /\ (last.op = "run_detection" /\ both) =>
              /\ NEpochs(data) = 5
              /\ FlaggedBy(detection_results, EV) = {1, 3}
              /\ FlaggedBy(detection_results, PTP) = {3, 4}
              /\ Rejected(detection_results) = {1, 3, 4}
              /\ get_bad_epochs = << 1, 3, 4 >>
        /\ (last.op = "preview_accept" /\ both /\ last.checks = {1, 2, 4}) =>
              /\ get_bad_epochs = << 1, 2, 4 >>
              /\ Statements(get_history_code, "extend") = {<< "extend", << 2 >> >>}
              /\ Statements(get_history_code, "filter") = {<< "filter", << 3 >> >>}

\* C5 witness: the preview of the scenario's table accepted with epoch 3
\* unchecked and epoch 2 checked
C5_Witness ==
    /\ last.op = "preview_accept"
    /\ Selected = {EV, PTP}
    /\ FlaggedBy(detection_results, EV) = {1, 3}
    /\ FlaggedBy(detection_results, PTP) = {3, 4}
    /\ last.checks = {1, 2, 4}
    /\ get_bad_epochs = << 1, 2, 4 >>

\* C6: in the state a run_detection leaves, a method that had stored
\* outcomes and was deselected since the previous run (it is pending and
\* not selected) is a key of no epoch's mapping, and every epoch's reject is
\* the OR of the outcomes of the methods still selected.
C6_DeselectedMethodPurged ==
    last.op = "run_detection" =>
        \A m \in (last.pend \cap last.had) \ Selected :
            /\ Selected # {}
            /\ \A i \in EpochIdx(data) :
                  /\ m \notin DOMAIN detection_results[i]
                  /\ detection_results[i][RejectKey] <=>
                        \E k \in Selected \ {m} :
                            /\ k \in DOMAIN detection_results[i]
                            /\ detection_results[i][k]

\* C6 witness: a run has purged a deselected method that alone flagged an
\* epoch, which is no longer rejected, while another method stays selected
C6_Witness ==
    /\ last.op = "run_detection"
    /\ \E m \in (last.pend \cap last.had) \ Selected :
          /\ Selected # {}
          /\ \E i \in EpochIdx(data) :
                /\ CurrentOutcome(m)[i]
                /\ ~detection_results[i][RejectKey]

\* The number of calls of method m's detector a run has made
Calls(m) == Cardinality({k \in 1 .. Len(last.calls) : last.calls[k] = m})

\* C7: a run calls the detector of a method exactly once, on the whole
\* dataset, when the method is pending and selected, and not at all
\* otherwise; a run leaves the stored outcomes of a selected method that is
\* not pending as they were.
C7_RunsOnlyPendingSelected ==
    /\ [](last.op = "run_detection" =>
            \A m \in Methods :
                Calls(m) = (IF m \in last.pend /\ m \in Selected THEN 1 ELSE 0))
    /\ [][run_detection =>
            /\ \A m \in methods_to_run(Selected, pending_methods) :
                  \A i \in EpochIdx(data) :
                      detection_results'[i][m] = CurrentOutcome(m)[i]
            /\ \A m \in Selected \ pending_methods :
                  \A i \in DOMAIN detection_results :
                      m \in DOMAIN detection_results[i] =>
                          /\ m \in DOMAIN detection_results'[i]
                          /\ detection_results'[i][m] = detection_results[i][m]]_vars

\* C7 witness: a run has called one method's detector and left alone a
\* selected method with stored outcomes that was not pending
C7_Witness ==
    /\ last.op = "run_detection"
    /\ last.calls # << >>
    /\ \E m \in (Selected \cap last.had) \ last.pend :
          /\ Calls(m) = 0
          /\ m \in StoredMethods(detection_results)

\* C8: whenever no method is selected the dialog is idle: no results, not
\* done, nothing pending, the timer stopped, the info label empty and the
\* Preview and OK buttons disabled.
C8_IdleWhenNothingSelected ==
    Selected = {} =>
        /\ detection_results = EmptyDict
        /\ ~detection_done
        /\ pending_methods = {}
        /\ ~timer_active
        /\ info_label = NoLabel
        /\ ~preview_enabled
        /\ ~ok_enabled

\* C8 witness: the last selected method has just been deselected, with
\* results of an earlier run in the table
C8_Witness ==
    /\ Selected = {}
    /\ last.op = "toggle"
    /\ last.had # {}

\* C9: the acceptance of a preview gives every epoch's reject the state of
\* the epoch's checkbox, and no step other than a run, an acceptance of a
\* preview or the deselection of all methods (a cancelled preview, the
\* opening of a preview, a check in it, a change that schedules a run, the
\* acceptance of the dialog) changes a reject value.
C9_OverrideStaysUntilRun ==
    /\ [][PreviewAccept =>
            /\ DOMAIN detection_results' = DOMAIN pv_check
            /\ \A i \in DOMAIN pv_check :
                  detection_results'[i][RejectKey] = pv_check[i]]_vars
    /\ [][(~run_detection /\ ~PreviewAccept /\ Selected' # {}) =>
            /\ Rejected(detection_results') = Rejected(detection_results)
            /\ get_bad_epochs' = get_bad_epochs]_vars

\* C9 witness: a rejection set by hand in an accepted preview is still
\* there after a later preview was cancelled
C9_Witness ==
    /\ last.op = "preview_cancel"
    /\ ManuallyAdded(detection_results) # {}

\* An epoch's largest absolute deviation from its channels' time means
\* compared with the threshold, on integers: dev / n > threshold
Exceeds(e, c, t, threshold) ==
    LET ch == data[e + 1][c]
        n  == Len(ch)
    IN  \/ n * ch[t] - SeqSum(ch) > n * threshold
        \/ SeqSum(ch) - n * ch[t] > n * threshold

Reaches(e, c, t, threshold) ==
    LET ch == data[e + 1][c]
        n  == Len(ch)
    IN  \/ n * ch[t] - SeqSum(ch) = n * threshold
        \/ SeqSum(ch) - n * ch[t] = n * threshold

Samples(e) ==
    UNION {{<< c, t >> : t \in 1 .. Len(data[e + 1][c])} :
              c \in 1 .. Len(data[e + 1])}

\* C10: find_bad_epochs_amplitude flags an epoch exactly when some sample
\* of some channel deviates from the channel's time mean by strictly more
\* than the threshold; an epoch whose largest deviation equals the
\* threshold is not flagged.
C10_AmplitudeStrict ==
    det_result.function = "find_bad_epochs_amplitude" =>
        /\ DOMAIN det_result.bad = EpochIdx(data)
        /\ \A e \in EpochIdx(data) :
              /\ det_result.bad[e] <=>
                    \E ct \in Samples(e) : Exceeds(e, ct[1], ct[2], det_threshold)
              /\ (\A ct \in Samples(e) : ~Exceeds(e, ct[1], ct[2], det_threshold))
                    => ~det_result.bad[e]

\* C10 witness: of two epochs, one has a largest deviation equal to the
\* threshold and is not flagged, the other exceeds it and is flagged
C10_Witness ==
    /\ det_result.function = "find_bad_epochs_amplitude"
    /\ det_threshold > 0
    /\ \E e \in EpochIdx(data) :
          /\ \E ct \in Samples(e) : Reaches(e, ct[1], ct[2], det_threshold)
          /\ \A ct \in Samples(e) : ~Exceeds(e, ct[1], ct[2], det_threshold)
          /\ ~det_result.bad[e]
    /\ \E e \in EpochIdx(data) : det_result.bad[e]

\* Channel c of epoch e has two samples more than threshold apart
PtpExceeds(e, c, threshold) ==
    LET ch == data[e + 1][c]
    IN  \E t1, t2 \in 1 .. Len(ch) : ch[t1] - ch[t2] > threshold

\* C11: find_bad_epochs_ptp flags an epoch exactly when some channel of it
\* has max - min strictly greater than the threshold; the flag is the one
\* the epoch gets alone, and the one some single channel of it gets alone,
\* whatever the other channels and epochs hold.
C11_PtpStrict ==
    det_result.function = "find_bad_epochs_ptp" =>
        /\ DOMAIN det_result.bad = EpochIdx(data)
        /\ \A e \in EpochIdx(data) :
              /\ det_result.bad[e] <=>
                    \E c \in 1 .. Len(data[e + 1]) : PtpExceeds(e, c, det_threshold)
              /\ det_result.bad[e] =
                    find_bad_epochs_ptp(<< data[e + 1] >>, det_threshold)[0]
              /\ det_result.bad[e] <=>
                    \E c \in 1 .. Len(data[e + 1]) :
                        find_bad_epochs_ptp(<< << data[e + 1][c] >> >>,
                                            det_threshold)[0]

\* C11 witness: an epoch is flagged for one channel while its other channel
\* has max - min equal to the threshold
C11_Witness ==
    /\ det_result.function = "find_bad_epochs_ptp"
    /\ det_threshold > 0
    /\ \E e \in EpochIdx(data) :
          /\ det_result.bad[e]
          /\ \E c1, c2 \in 1 .. Len(data[e + 1]) :
                /\ PtpExceeds(e, c1, det_threshold)
                /\ ~PtpExceeds(e, c2, det_threshold)
                /\ PtpExceeds(e, c2, det_threshold - 1)

\* The kurtosis values of channel c over the epochs, as integers on their
\* common denominator
KurtScaled(c) ==
    LET col == KurtColumn(data, c)
        L   == SeqLCM([i \in 1 .. Len(col) |-> col[i][2]])
    IN  [i \in 1 .. Len(col) |-> col[i][1] * (L \div col[i][2])]

\* N times the deviation of each epoch's value from the mean over epochs
KurtDev(c) ==
    LET a == KurtScaled(c)
    IN  [i \in 1 .. Len(a) |-> Len(a) * a[i] - SeqSum(a)]

KurtDefined(c) == \A i \in 1 .. NEpochs(data) : ~IsNaN(KurtColumn(data, c)[i])

\* |z[e, c]| > th for the integer th: with D = KurtDev(c) the z-score is
\* sqrt(N) * D[e] / sqrt(sum(D^2)), and 0 when the std is 0
AbsZExceeds(e, c, th) ==
    /\ KurtDefined(c)
    /\ LET D  == KurtDev(c)
           N  == Len(D)
           SS == SeqSum([i \in 1 .. N |-> D[i] * D[i]])
       IN  IF SS = 0 THEN 0 > th
           ELSE th < 0 \/ N * D[e + 1] * D[e + 1] > th * th * SS

\* z[e, c] > th, signed
SignedZExceeds(e, c, th) ==
    /\ KurtDefined(c)
    /\ LET D  == KurtDev(c)
           N  == Len(D)
           SS == SeqSum([i \in 1 .. N |-> D[i] * D[i]])
       IN  IF SS = 0 THEN 0 > th
           ELSE IF th >= 0
                THEN D[e + 1] > 0 /\ N * D[e + 1] * D[e + 1] > th * th * SS
                ELSE D[e + 1] >= 0 \/ N * D[e + 1] * D[e + 1] < th * th * SS

\* C12 as stated: find_bad_epochs_kurtosis flags an epoch exactly when the
\* signed z-score of the kurtosis of some channel is greater than the
\* threshold.
C12_KurtosisSignedZ ==
    det_result.function = "find_bad_epochs_kurtosis" =>
        \A e \in EpochIdx(data) :
            det_result.bad[e] <=>
                \E c \in 1 .. Len(data[e + 1]) : SignedZExceeds(e, c, det_threshold)

\* C12 amended: find_bad_epochs_kurtosis flags an epoch exactly when the
\* absolute value of the z-score of the kurtosis of some channel is greater
\* than the threshold; a channel whose kurtosis is nan in some epoch flags
\* none.
C12_KurtosisAbsZ ==
    det_result.function = "find_bad_epochs_kurtosis" =>
        /\ DOMAIN det_result.bad = EpochIdx(data)
        /\ \A e \in EpochIdx(data) :
              det_result.bad[e] <=>
                  \E c \in 1 .. Len(data[e + 1]) : AbsZExceeds(e, c, det_threshold)

\* C12 witness: with a positive threshold, an epoch is flagged whose
\* kurtosis lies below the mean (no signed z-score of it exceeds), and
\* another with a kurtosis above the mean is not
C12_Witness ==
    /\ det_result.function = "find_bad_epochs_kurtosis"
    /\ det_threshold > 0
    /\ \E e \in EpochIdx(data) :
          /\ det_result.bad[e]
          /\ \A c \in 1 .. Len(data[e + 1]) : ~SignedZExceeds(e, c, det_threshold)
    /\ \E e \in EpochIdx(data) :
          /\ ~det_result.bad[e]
          /\ \E c \in 1 .. Len(data[e + 1]) : KurtDev(c)[e + 1] > 0

\* The dataset with its epochs in reverse order
Reverse(d) == [i \in 1 .. Len(d) |-> d[Len(d) + 1 - i]]

\* The detector of the given name called on d with the thresholds of the
\* state
DirectCall(name, d) ==
    CASE name = "find_bad_epochs_amplitude" -> find_bad_epochs_amplitude(d, det_threshold)
      [] name = "find_bad_epochs_ptp" -> find_bad_epochs_ptp(d, det_threshold)
      [] name = "find_bad_epochs_kurtosis" ->
             find_bad_epochs_kurtosis(d, det_threshold * One)
      [] name = "find_bad_epochs_autoreject" -> AutorejectBad(d, eeg_threshold)

\* C13: what a detector returns is a vector of booleans with exactly one
\* entry per epoch, and entry i describes epoch i: on the dataset with the
\* epochs reversed the detector returns the entries reversed.
C13_OneEntryPerEpoch ==
    (det_result.function # "" /\ det_result.raised = "") =>
        /\ DOMAIN det_result.bad = EpochIdx(data)
        /\ \A e \in EpochIdx(data) :
              /\ det_result.bad[e] \in BOOLEAN
              /\ det_result.bad[e] =
                    DirectCall(det_result.function, Reverse(data))[NEpochs(data) - 1 - e]

\* C13 witness: a detector has returned, for two epochs, one flagged and one
\* not
C13_Witness ==
    /\ det_result.function = "find_bad_epochs_autoreject"
    /\ det_result.raised = ""
    /\ NEpochs(data) = 2
    /\ det_result.bad[0] # det_result.bad[1]

ThresholdDetectors ==
    {"find_bad_epochs_amplitude", "find_bad_epochs_ptp", "find_bad_epochs_kurtosis"}

\* C14: on a dataset without epochs the amplitude, the peak-to-peak and the
\* kurtosis detector each return an empty vector and raise nothing.
C14_NoEpochsNoError ==
    (det_result.function \in ThresholdDetectors /\ NEpochs(data) = 0) =>
        /\ det_result.raised = ""
        /\ det_result.read
        /\ DOMAIN det_result.bad = {}

\* C14 witness: the kurtosis detector, whose mean and std over no epochs are
\* nan, has returned on a dataset without epochs
C14_Witness ==
    /\ det_result.function = "find_bad_epochs_kurtosis"
    /\ NEpochs(data) = 0
    /\ det_result.raised = ""

\* C15: with a dataset without epochs and a method selected, no operation
\* of the dialog raises, the preview included, and the rejection set
\* reported is empty.
C15_NoEpochsDialogNoError ==
    (NEpochs(data) = 0 /\ Selected # {}) =>
        /\ error = ""
        /\ get_bad_epochs = << >>
        /\ EvalScript(get_history_code, data) = {}

\* C16: find_bad_epochs_autoreject raises ImportError, the dataset unread,
\* exactly when autoreject is not installed; the registry holds AutoReject
\* exactly when it is installed, and without it no run of the dialog calls
\* that detector, no checkbox selects it and no table holds its outcomes.
C16_AutorejectOnlyWhenAvailable ==
    /\ (AR \in Methods) <=> have_autoreject
    /\ DOMAIN checked = Methods
    /\ det_result.function = "find_bad_epochs_autoreject" =>
          /\ (det_result.raised = "ImportError") <=> ~have_autoreject
          /\ ~have_autoreject => ~det_result.read
    /\ ~have_autoreject =>
          /\ AR \notin Range(last.calls)
          /\ AR \notin Selected
          /\ AR \notin pending_methods
          /\ AR \notin StoredMethods(detection_results)

\* C16 witness: without autoreject the direct call has raised ImportError
\* and the dialog has run its detection
C16_Witness ==
    /\ ~have_autoreject
    /\ det_result.raised = "ImportError"
    /\ last.op = "run_detection"
    /\ last.calls # << >>

\* The epochs the detectors of the selected methods flag for the current
\* parameters
DetectedNow ==
    {i \in EpochIdx(data) : \E m \in Selected : CurrentOutcome(m)[i]}

\* The script as a function of the selected methods, their parameters, the
\* final reject set and the dataset alone
ScriptOf(final) ==
    LET added   == SetToList(final \ DetectedNow)
        removed == SetToList(DetectedNow \ final)
    IN  << << "comment", "# artifact detection" >> >>
        \o CallLines
        \o << << "mask", bad_epochs_vars >>, << "auto" >> >>
        \o (IF added # << >> \/ removed # << >>
            THEN << << "comment", "# manual modifications" >>, << "copy" >> >>
                 \o (IF added # << >> THEN << << "extend", added >> >> ELSE << >>)
                 \o (IF removed # << >> THEN << << "filter", removed >> >> ELSE << >>)
                 \o << << "drop", "bad_epochs_final" >> >>
            ELSE << << "drop", "bad_epochs_auto" >> >>)

\* C17: the script get_history_code emits is determined by the selected
\* methods, their parameter values and the final reject set: on every
\* accepted dialog it is the one script those inputs give, whatever led to
\* the state.
C17_ScriptDeterminedByInputs ==
    phase = "accepted" => get_history_code = ScriptOf(final_rejects)

\* C18: after the dependencies module has run, have holds under every
\* dependency's distribution name the metadata version when the
\* distribution is found, and otherwise the __version__ of the module of
\* the dependency's import name, "unknown" when it has none, and False when
\* the import fails.
C18_HaveTable ==
    have # EmptyDict =>
        /\ DOMAIN have = {Packages[i][2] : i \in 1 .. Len(Packages)}
        /\ \A i \in 1 .. Len(Packages) :
              LET version == environment.metadata[Packages[i][2]]
                  module  == environment.modules[Packages[i][3]]
              IN  have[Packages[i][2]] =
                      IF version # PackageNotFound THEN version
                      ELSE IF module = ImportFails THEN PyFalse
                      ELSE IF module = NoVersion THEN "unknown"
                      ELSE module

\* C18 witness: without metadata, python-picard has the version of module
\* picard, pyside6 that of module PySide6, mne-qt-browser is False as its
\* module fails to import, and scikit-learn is "unknown"
C18_Witness ==
    /\ have # EmptyDict
    /\ \A i \in 1 .. Len(KnownPackages) :
          environment.metadata[KnownPackages[i][2]] = PackageNotFound
    /\ have[KnownPackages[1][2]] = "2.0"
    /\ have[KnownPackages[2][2]] = "2.0"
    /\ have[KnownPackages[3][2]] = "unknown"
    /\ have[KnownPackages[4][2]] = PyFalse

Digits == << "0", "1", "2", "3", "4", "5", "6", "7", "8", "9" >>

\* Letters, digits and underscores only, not starting with a digit
IsIdentifier(text) ==
    /\ text # << >>
    /\ \A i \in 1 .. Len(text) :
          text[i] \in Range(LowerCase) \cup Range(UpperCase) \cup Range(Digits) \cup {"_"}
    /\ text[1] \notin Range(Digits)

\* C19: with a method selected, the script has exactly one detector call
\* per selected method, each assigned to its own variable; the variables'
\* names are pairwise distinct, are the names the mask statement combines,
\* and each is a valid identifier.
C19_CallVariablesAreIdentifiers ==
    LET script == get_history_code
        calls  == {k \in 1 .. Len(script) : script[k][1] = "call"}
    IN  Selected # {} =>
            /\ Cardinality(calls) = Cardinality(Selected)
            /\ \A m \in Selected :
                  Cardinality({k \in calls : script[k][3] = FunctionName(m)}) = 1
            /\ \A j, k \in calls : script[j][2] = script[k][2] => j = k
            /\ \A st \in Statements(script, "mask") :
                  Range(st[2]) = {script[k][2] : k \in calls}
            /\ \A k \in calls : IsIdentifier(script[k][2])

\* A checkbox toggle or a parameter change of method m
ChangeOf(m) ==
    \/ ToggleMethod(m)
    \/ \E i \in 1 .. Len(Parameters(m)) : \E v \in SpinChoices(m) :
          ChangeParameter(m, i, v)

-----------------------------------------------------------------------------
(* The preview table and the epoch visualization *)

\* The operations of the preview table and of its epoch visualization
PreviewOps ==
    {"preview_toggle", "sort", "show_epoch_visualization", "viz_toggle",
     "viz_close", "preview_cancel", "preview_accept"}

\* Two tables that differ at most in the values of "reject"
SameButReject(a, b) ==
    /\ DOMAIN a = DOMAIN b
    /\ \A i \in DOMAIN a :
          /\ DOMAIN a[i] = DOMAIN b[i]
          /\ \A k \in (DOMAIN a[i]) \ {RejectKey} : a[i][k] = b[i][k]

\* C21: the acceptance of a preview leaves the dialog's table with the
\* epochs, the method keys and the per-method outcomes it had, changing
\* values of "reject" at most; every other operation of the preview or of
\* its epoch visualization (a toggle, a sort, the opening and the closing
\* of the visualization, a toggle in the figure, the cancel) leaves the
\* dialog's table as it is.
C21_PreviewChangesRejectOnAccept ==
    [][/\ last'.op = "preview_accept" =>
            SameButReject(detection_results, detection_results')
       /\ last'.op \in PreviewOps \ {"preview_accept"} =>
            detection_results' = detection_results]_vars

\* The epochs whose Reject box is checked in the preview table
CheckedRows == {i \in DOMAIN pv_check : pv_check[i]}

\* C22: the visualization opens with the epochs whose Reject box is checked
\* as the figure's bad epochs and changes no check box by opening or while
\* it is open; when it closes, every epoch's reject in the preview and every
\* epoch's check box is True exactly for the epochs bad in the figure at
\* that moment, so that a figure closed with the bad epochs it started with
\* leaves every reject value and check box as it was.
C22_VisualizationSetsRejects ==
    [][/\ (~viz_open /\ viz_open') =>
            /\ viz_bad' = CheckedRows
            /\ pv_check' = pv_check
       /\ (viz_open /\ viz_open') =>
            /\ pv_check' = pv_check
            /\ pv_results' = pv_results
       /\ (viz_open /\ ~viz_open') =>
            /\ DOMAIN pv_results' = EpochIdx(data)
            /\ DOMAIN pv_check' = EpochIdx(data)
            /\ \A i \in EpochIdx(data) :
                  /\ pv_results'[i][RejectKey] = (i \in viz_bad)
                  /\ pv_check'[i] = (i \in viz_bad)
            /\ viz_bad = CheckedRows =>
                  /\ pv_check' = pv_check
                  /\ pv_results' = pv_results]_vars

\* C22 witness: a visualization opened from a table sorted the other way
\* round has closed after epoch 0, rejected by the detection, was unmarked
\* in the figure and epoch 1 left marked
C22_Witness ==
    /\ last.op = "viz_close"
    /\ pv_order = << 1, 0 >>
    /\ detection_results[0][RejectKey]
    /\ ~pv_check[0]
    /\ ~pv_results[0][RejectKey]
    /\ pv_check[1]

\* C23: whatever order the table is sorted in, the proxy rows show every
\* epoch exactly once, and a sync (at the acceptance of the preview and at
\* the opening of the visualization) leaves every epoch's reject equal to
\* the check state of the row that shows this epoch, and everything else
\* in the preview's table as it was.
C23_SyncIndependentOfSortOrder ==
    /\ [](pv_open =>
            /\ Len(pv_order) = NEpochs(data)
            /\ \A i \in EpochIdx(data) :
                  Cardinality({k \in 0 .. (Len(pv_order) - 1) :
                                  mapToSource(k) = i}) = 1)
    /\ [][last'.op = "preview_accept" =>
            /\ SameButReject(pv_results, detection_results')
            /\ \A i \in EpochIdx(data) :
                  detection_results'[i][RejectKey] = pv_check[i]]_vars
    /\ [][last'.op = "show_epoch_visualization" =>
            /\ SameButReject(pv_results, pv_results')
            /\ \A i \in EpochIdx(data) :
                  pv_results'[i][RejectKey] = pv_check[i]]_vars

\* C23 witness: the sync at the opening of the visualization, from a table
\* sorted the other way round, has cleared the reject of epoch 0 and set
\* the reject of epoch 1, as the boxes of their rows were set by hand
C23_Witness ==
    /\ last.op = "show_epoch_visualization"
    /\ pv_order = << 1, 0 >>
    /\ detection_results[0][RejectKey]
    /\ ~detection_results[1][RejectKey]
    /\ ~pv_check[0]
    /\ pv_check[1]
    /\ ~pv_results[0][RejectKey]
    /\ pv_results[1][RejectKey]

\* C24: whenever the OK button or the Preview button is enabled, no method
\* is pending and the debounce timer is not running, and the table holds,
\* for every selected method, the outcome of its detector for the displayed
\* parameter values.
C24_NoAcceptWhilePending ==
    (ok_enabled \/ preview_enabled) =>
        /\ pending_methods = {}
        /\ ~timer_active
        /\ \A m \in Selected : \A i \in EpochIdx(data) :
              /\ m \in DOMAIN detection_results[i]
              /\ detection_results[i][m] = CurrentOutcome(m)[i]

\* C25: when a run has changed the dialog's table while the preview was
\* open (the table differs from the preview's snapshot in more than
\* "reject"), the acceptance of the preview leaves the dialog's table with
\* the method keys and the per-method outcomes that run wrote.
C25_RunDuringPreviewKept ==
    [][(last'.op = "preview_accept"
          /\ ~SameButReject(pv_results, detection_results)) =>
            /\ StoredMethods(detection_results') = StoredMethods(detection_results)
            /\ \A m \in Methods :
                  FlaggedBy(detection_results', m) = FlaggedBy(detection_results, m)]_vars

\* C26: in every state the OK button is enabled exactly when the Preview
\* button is, and exactly when detection_done is True; and detection_done
\* implies that a method is selected and that the table has an entry for
\* each of the dataset's epochs, every entry with a "reject" key.
C26_ButtonsFollowDetectionDone ==
    /\ ok_enabled = preview_enabled
    /\ ok_enabled = detection_done
    /\ detection_done =>
          /\ Selected # {}
          /\ DOMAIN detection_results = EpochIdx(data)
          /\ \A i \in EpochIdx(data) : RejectKey \in DOMAIN detection_results[i]

\* C26 witness: the table of two epochs that an accepted preview has put in
\* place of the dialog's, with a rejection set by hand, the buttons enabled
C26_Witness ==
    /\ last.op = "preview_accept"
    /\ detection_done
    /\ ok_enabled
    /\ NEpochs(data) = 2
    /\ ManuallyAdded(detection_results) # {}

-----------------------------------------------------------------------------
(* Monotony of the threshold detectors *)

\* The detector named name called on d with threshold t, in the units of
\* det_threshold
CallWith(name, d, t) ==
    CASE name = "find_bad_epochs_amplitude" -> find_bad_epochs_amplitude(d, t)
      [] name = "find_bad_epochs_ptp" -> find_bad_epochs_ptp(d, t)
      [] name = "find_bad_epochs_kurtosis" -> find_bad_epochs_kurtosis(d, t * One)

\* C27: what the amplitude, the peak-to-peak or the kurtosis detector
\* flags at a threshold, it flags at every lower threshold: every epoch
\* flagged at a threshold t2 at or above the one of the call is among the
\* epochs the call flagged, and every epoch the call flagged is flagged at
\* every threshold t1 at or below it.
C27_MonotoneInThreshold ==
    (det_result.function \in ThresholdDetectors /\ det_result.raised = "") =>
        \A e \in EpochIdx(data) :
            /\ \A t2 \in det_threshold .. MaxThreshold :
                  CallWith(det_result.function, data, t2)[e] => det_result.bad[e]
            /\ \A t1 \in -1 .. det_threshold :
                  det_result.bad[e] => CallWith(det_result.function, data, t1)[e]

\* C27 witness: the kurtosis detector has flagged, at threshold 0, three
\* epochs of which the next threshold flags one only
C27_Witness ==
    /\ det_result.function = "find_bad_epochs_kurtosis"
    /\ det_threshold = 0
    /\ NEpochs(data) = 3
    /\ \A e \in EpochIdx(data) : det_result.bad[e]
    /\ Cardinality({e \in EpochIdx(data) :
                       CallWith("find_bad_epochs_kurtosis", data, 1)[e]}) = 1

-----------------------------------------------------------------------------
(* The copy button of InfoWidget *)

\* C28: while the restore timer runs, the button shows the check mark; a
\* click shows it and starts the timer with its full 1500 ms; no step but
\* the restore timer's timeout (an Enter, a Leave, the hide timer's
\* timeout, the passing of time, another click) changes the icon or stops
\* the timer while the check mark shows; the timeout leaves the copy icon
\* if the pointer is over the label or the button and no icon otherwise;
\* and with the pointer elsewhere and no timer running the button has no
\* icon.
C28_CheckMarkUntilRestore ==
    /\ [](IsActive(info_widget.restore_timer) => info_widget.icon = CheckIcon)
    /\ []((/\ info_widget.pointer = "elsewhere"
            /\ ~IsActive(info_widget.hide_timer)
            /\ ~IsActive(info_widget.restore_timer))
           => info_widget.icon = NoIcon)
    /\ [][info_widget'.event = "click" =>
                /\ info_widget'.icon = CheckIcon
                /\ info_widget'.restore_timer = RestoreInterval]_vars
    /\ [][(info_widget.icon = CheckIcon /\ info_widget'.event # "restore") =>
                /\ info_widget'.icon = CheckIcon
                /\ IsActive(info_widget'.restore_timer)]_vars
    /\ [][info_widget'.event = "restore" =>
                /\ info_widget.restore_timer = 0
                /\ info_widget'.icon =
                      IF info_widget.pointer \in Watched THEN CopyIcon ELSE NoIcon]_vars

\* C28 witness: with the check mark showing and part of the 1500 ms gone,
\* the pointer has left and the hide timer has just expired
C28_Witness ==
    /\ info_widget.event = "hide"
    /\ info_widget.icon = CheckIcon
    /\ info_widget.pointer = "elsewhere"
    /\ info_widget.restore_timer > 0
    /\ info_widget.restore_timer < RestoreInterval


\* What a drop at sidebar'.pos of the table's own selected rows has done
C29_DropDone ==
    LET under  == IF sidebar'.pos = -1 THEN sidebar.rowCount ELSE sidebar'.pos
        n      == Len(sidebar.selected)
        target == IF under > sidebar.selected[n] THEN under - n ELSE under
    IN  /\ n > 0
        /\ sidebar'.emitted = << << sidebar.selected[1], target >> >>
        /\ target \in 0..(sidebar.rowCount - 1)
        /\ sidebar'.drop_row = -1

\* C29: a drop of the sidebar table's own rows emits rowsMoved(source,
\* target) exactly once, source the first selected row, target the row under
\* the drop position (rowCount below the last row) less the number of
\* selected rows when it is below the selection; target is a row index in
\* 0..rowCount-1; drop_row is -1 after the drop and after a drag leaves.
C29_DropEmitsRowsMovedOnce ==
    /\ [][(sidebar.drag = "internal" /\ sidebar.inside /\ sidebar'.event \in {"drop", "IndexError"}) => C29_DropDone]_vars
    /\ [][sidebar'.event = "dragLeave" => sidebar'.drop_row = -1]_vars

\* A row dropped below the last row goes to the last row
C29_Witness ==
    /\ sidebar # << >>
    /\ sidebar.event = "drop"
    /\ sidebar.pos = -1
    /\ sidebar.rowCount = 3
    /\ sidebar.emitted = << << 0, 2 >> >>
    /\ sidebar.drop_row = -1

=============================================================================
